---- MODULE Spec2Model ----
(***************************************************************************)
(* KoREKtor: ingestion pipeline (DocumentManager, IntelligentPDFChunker,   *)
(* web loader) and the disk cache of the vector index (VectorStoreCache,   *)
(* LazyVectorStore, create_optimized_hr_assistant).                        *)
(*                                                                         *)
(* Texts are sequences of one-character strings.  Twelve specifications    *)
(* share the variables:                                                    *)
(*   SpecChunk  - IntelligentPDFChunker.chunk_documents on bounded inputs  *)
(*   SpecLoad   - DocumentManager.load_all_documents over bounded sources  *)
(*   SpecDM     - DocumentManager over a changing PDF directory            *)
(*   SpecCache  - VectorStoreCache and its two callers                     *)
(*   SpecHash   - _calculate_content_hash, character by character          *)
(*   SpecConfig - KorektorConfig.validate and HRAssistantV2.__init__       *)
(*   SpecRepr   - KorektorConfig.__repr__ over API keys of every length    *)
(*   SpecSources - ask_hr_assistant formatting the sources of an answer    *)
(*   SpecExtract - IntelligentPDFChunker._extract_pdf_structure            *)
(*   SpecRace   - load_all_documents while the directory is written        *)
(*   SpecSavers - two concurrent save_vectorstore calls                    *)
(*   SpecReload - HRAssistantV2.reload_knowledge_base                      *)
(***************************************************************************)
EXTENDS Integers, Sequences, FiniteSets, TLC

VARIABLES
    pdf_dir,        \* PDF directory: name of each *.pdf file -> [size, mtime, kind]
    urls_file,      \* URL list file: [exists, lines]
    known_pdfs,     \* DocumentManager._known_pdfs
    pdf_mtimes,     \* DocumentManager._pdf_mtimes
    snapshot_sizes, \* history: byte size each file of the snapshot had when it was stored
    since,          \* history: what happened since the last DocumentManager call
    ret,            \* what the call that just finished returned or raised
    chunk_size,     \* IntelligentPDFChunker.chunk_size
    chunk_overlap,  \* IntelligentPDFChunker.chunk_overlap
    documents,      \* argument of chunk_documents
    chunked_docs,   \* [called, docs]: the result of chunk_documents once called
    metadata_file,  \* faiss_cache/metadata.json: [kind, stats_ok, has_hash, content_hash]
    faiss_index,    \* faiss_cache/faiss_index: [state, built_from]
    lazy_vectorstore, \* LazyVectorStore._vectorstore: [loaded, built_from]
    cache_since,    \* history: "saved" from a save that returned True until the
                    \* sources change, the cache is cleared or a save fails
    cret,           \* what the cache call that just finished returned or raised
    hashed,         \* the last two results of _calculate_content_hash and
                    \* the sources each was computed from
    config,         \* a KorektorConfig: [chunk_size, chunk_overlap, memory_k,
                    \* search_k, llm_temperature], the temperature in tenths
    vret,           \* what the call on the configuration that just finished
                    \* returned or raised, and the I/O it did, in order
    sources,        \* response['sources'] of hr_assistant.ask, as app.py gets it
    answer,         \* [called, lines]: the source lines of the answer of
                    \* ask_hr_assistant once called
    pdf_items,      \* the text lines of one PDF in reading order, a "break"
                    \* between the lines of two pages; a line is [size, text]
    extracted,      \* [called, docs]: the result of _extract_pdf_structure on
                    \* that PDF once called
    savers          \* concurrent save_vectorstore calls: [calls, index_by,
                    \* metadata_by]; calls[p] is [pc, vectorstore, content_hash]
                    \* of process p, the rest the history of who wrote what

vars == <<pdf_dir, urls_file, known_pdfs, pdf_mtimes, snapshot_sizes, since, ret,
          chunk_size, chunk_overlap, documents, chunked_docs,
          metadata_file, faiss_index, lazy_vectorstore, cache_since, cret, hashed,
          config, vret, sources, answer, pdf_items, extracted, savers>>

fsVars      == <<pdf_dir, urls_file>>
dmVars      == <<known_pdfs, pdf_mtimes, snapshot_sizes, since, ret>>
chunkerVars == <<chunk_size, chunk_overlap>>
chunkVars   == <<documents, chunked_docs>>
cacheVars   == <<metadata_file, faiss_index, lazy_vectorstore, cache_since, cret,
                 hashed>>
configVars  == <<config, vret>>
appVars     == <<sources, answer>>
extractVars == <<pdf_items, extracted>>

None == "None"

Min(S) == CHOOSE x \in S : \A y \in S : x <= y

(***************************************************************************)
(* Bounds of the model.                                                    *)
(***************************************************************************)
MaxChunkSize == 3   \* chunk_size ranges over 1..MaxChunkSize
MaxTextLen   == 4   \* characters a chunk_documents input holds in SpecChunk
MaxDocs      == 2   \* documents in one chunk_documents input in SpecChunk
MaxMtime     == 2   \* modification times are 1..MaxMtime
MaxUrls      == 2   \* lines of the URL list file
MaxK         == 1   \* largest memory_k and search_k of a configuration

(***************************************************************************)
(* Strings.                                                                *)
(***************************************************************************)
Whitespace == {" ", "\n"}

\* str.lstrip / str.rstrip / str.strip
RECURSIVE lstrip(_)
lstrip(s) ==
    IF s = <<>> THEN s
    ELSE IF Head(s) \in Whitespace THEN lstrip(Tail(s)) ELSE s

RECURSIVE rstrip(_)
rstrip(s) ==
    IF s = <<>> THEN s
    ELSE IF s[Len(s)] \in Whitespace THEN rstrip(SubSeq(s, 1, Len(s) - 1)) ELSE s

strip(s) == rstrip(lstrip(s))

\* "".join(parts)
RECURSIVE join(_)
join(parts) == IF parts = <<>> THEN <<>> ELSE Head(parts) \o join(Tail(parts))

\* str() of a natural number
Digit == <<"0", "1", "2", "3", "4", "5", "6", "7", "8", "9">>

RECURSIVE str(_)
str(n) == IF n < 10 THEN <<Digit[n + 1]>> ELSE str(n \div 10) \o <<Digit[(n % 10) + 1]>>

\* text[i:].startswith(sep), 1-based
MatchesAt(text, sep, i) ==
    /\ i + Len(sep) - 1 <= Len(text)
    /\ SubSeq(text, i, i + Len(sep) - 1) = sep

\* re.search(re.escape(sep), text) is not None
Contains(text, sep) == \E i \in 1..Len(text) : MatchesAt(text, sep, i)

(***************************************************************************)
(* RecursiveCharacterTextSplitter as IntelligentPDFChunker configures it:  *)
(* literal separators, keep_separator at the start of the next piece,      *)
(* len() as the length function, whitespace stripped from merged chunks.   *)
(***************************************************************************)
separators ==
    << <<"\n", "#", "#", " ">>,
       <<"\n", "#", "#", "#", " ">>,
       <<"\n", "#", "#", "#", "#", " ">>,
       <<"\n", "\n">>,
       <<"\n">>,
       <<".", " ">>,
       <<",", " ">>,
       <<" ">>,
       <<>> >>

\* re.split with the separator captured, each separator glued to the piece
\* that follows it; scans left to right from position i, cur is the piece
\* being collected.
RECURSIVE split_keep(_, _, _, _)
split_keep(text, sep, i, cur) ==
    IF i > Len(text) THEN <<cur>>
    ELSE IF MatchesAt(text, sep, i)
         THEN <<cur>> \o split_keep(text, sep, i + Len(sep), sep)
         ELSE split_keep(text, sep, i + 1, Append(cur, text[i]))

_split_text_with_regex(text, separator) ==
    LET splits == IF separator # <<>>
                  THEN split_keep(text, separator, 1, <<>>)
                  ELSE [i \in 1..Len(text) |-> <<text[i]>>]
    IN  SelectSeq(splits, LAMBDA s : s # <<>>)

\* TextSplitter._join_docs with separator "": <<>> stands for None
_join_docs(docs) == strip(join(docs))

\* the while loop of _merge_splits that drops pieces from the front of
\* current_doc until the kept tail is within the overlap and d fits
RECURSIVE pop_front(_, _, _, _, _)
pop_front(current_doc, total, len, B, O) ==
    IF total > O \/ (total + len > B /\ total > 0)
    THEN pop_front(Tail(current_doc), total - Len(Head(current_doc)), len, B, O)
    ELSE [current_doc |-> current_doc, total |-> total]

RECURSIVE merge_loop(_, _, _, _, _, _, _)
merge_loop(splits, i, docs, current_doc, total, B, O) ==
    IF i > Len(splits)
    THEN LET doc == _join_docs(current_doc)
         IN  IF doc # <<>> THEN Append(docs, doc) ELSE docs
    ELSE LET d == splits[i]
         IN  IF total + Len(d) > B /\ Len(current_doc) > 0
             THEN LET doc == _join_docs(current_doc)
                      p   == pop_front(current_doc, total, Len(d), B, O)
                  IN  merge_loop(splits, i + 1,
                                 IF doc # <<>> THEN Append(docs, doc) ELSE docs,
                                 Append(p.current_doc, d), p.total + Len(d), B, O)
             ELSE merge_loop(splits, i + 1, docs,
                             Append(current_doc, d), total + Len(d), B, O)

\* TextSplitter._merge_splits(splits, "")
_merge_splits(splits, B, O) == merge_loop(splits, 1, <<>>, <<>>, 0, B, O)

RECURSIVE _split_text(_, _, _, _)
RECURSIVE split_loop(_, _, _, _, _, _, _)

\* the for loop of _split_text over the pieces: pieces shorter than the
\* budget are collected and merged, any other piece is split with the
\* remaining separators, or emitted as it is when none remains
split_loop(splits, i, good_splits, final_chunks, new_separators, B, O) ==
    IF i > Len(splits)
    THEN IF good_splits # <<>>
         THEN final_chunks \o _merge_splits(good_splits, B, O)
         ELSE final_chunks
    ELSE IF Len(splits[i]) < B
         THEN split_loop(splits, i + 1, Append(good_splits, splits[i]),
                         final_chunks, new_separators, B, O)
         ELSE split_loop(splits, i + 1, <<>>,
                         (IF good_splits # <<>>
                          THEN final_chunks \o _merge_splits(good_splits, B, O)
                          ELSE final_chunks)
                         \o (IF new_separators = <<>>
                             THEN <<splits[i]>>
                             ELSE _split_text(splits[i], new_separators, B, O)),
                         new_separators, B, O)

\* RecursiveCharacterTextSplitter._split_text: the first separator of the
\* list that is "" or occurs in the text is used, the ones after it remain
_split_text(text, seps, B, O) ==
    LET found == {i \in 1..Len(seps) : seps[i] = <<>> \/ Contains(text, seps[i])}
        idx   == IF found = {} THEN Len(seps) ELSE Min(found)
        new_separators == IF found = {} \/ seps[idx] = <<>>
                          THEN <<>>
                          ELSE SubSeq(seps, idx + 1, Len(seps))
    IN  split_loop(_split_text_with_regex(text, seps[idx]), 1, <<>>, <<>>,
                   new_separators, B, O)

split_text(text, B, O) == _split_text(text, separators, B, O)

(***************************************************************************)
(* IntelligentPDFChunker.chunk_documents.  A document is a record          *)
(* [page_content, metadata]; metadata is a function from keys to values.   *)
(***************************************************************************)
\* chunks_of with the budget test off by one
chunks_of_off_by_one(doc, B, O) ==
    IF Len(doc.page_content) <= B + 1
    THEN <<doc>>
    ELSE LET texts == split_text(doc.page_content, B, O)
         IN  [i \in 1..Len(texts) |->
                 [page_content |-> texts[i],
                  metadata |-> ("chunk_id" :> (i - 1)) @@
                               ("total_chunks" :> Len(texts)) @@ doc.metadata]]

\* chunks_of that numbers the pieces from 1
chunks_of_one_based(doc, B, O) ==
    IF Len(doc.page_content) <= B
    THEN <<doc>>
    ELSE LET texts == split_text(doc.page_content, B, O)
         IN  [i \in 1..Len(texts) |->
                 [page_content |-> texts[i],
                  metadata |-> ("chunk_id" :> i) @@
                               ("total_chunks" :> Len(texts)) @@ doc.metadata]]

\* the chunks of one document: the document itself when it fits the budget,
\* otherwise one new document per piece with chunk_id and total_chunks
chunks_of(doc, B, O) ==
    IF Len(doc.page_content) <= B
    THEN <<doc>>
    ELSE LET texts == split_text(doc.page_content, B, O)
         IN  [i \in 1..Len(texts) |->
                 [page_content |-> texts[i],
                  metadata |-> ("chunk_id" :> (i - 1)) @@
                               ("total_chunks" :> Len(texts)) @@ doc.metadata]]

RECURSIVE chunk_documents(_, _, _)
chunk_documents(docs, B, O) ==
    IF docs = <<>> THEN <<>>
    ELSE chunks_of(Head(docs), B, O) \o chunk_documents(Tail(docs), B, O)

NoFiles == [n \in {} |-> 0]
NoRet   == [op |-> "none", after |-> "other", raised |-> "none", changed |-> FALSE,
            chunks |-> <<>>, chunker_called |-> FALSE, extracted |-> NoFiles]

(***************************************************************************)
(* The sources on disk and on the network.                                 *)
(*                                                                         *)
(* A PDF file is [size, mtime, kind]: kind "text" is a PDF with one page   *)
(* of text, "blank" a PDF whose pages hold no text, "corrupt" a file that  *)
(* fitz.open cannot open.  A line of the URL list is a URL or a comment;   *)
(* what fetching a URL does is fixed by the URL.                           *)
(***************************************************************************)
Names  == {"a.pdf", "b.pdf"}
Sizes  == {1, 2}
Kinds  == {"text", "blank", "corrupt"}
Mtimes == 1..MaxMtime

UrlLines == {"https://ok", "https://down", "https://short", "#comment"}

\* the page text of a text PDF: a small file holds less than any chunk
\* budget of the model, a large file more
ShortText == <<"a">>
LongText  == <<"a", " ", "a", " ", "a", " ", "a">>

\* the text get_full_content finds on a page with usable content; it stands
\* for a text of more than 50 characters, the minimum load_url_documents keeps
WebText == <<"a", " ", "a", " ", "a">>

(***************************************************************************)
(* IntelligentPDFChunker._extract_pdf_structure on one file, reduced to    *)
(* what its caller sees: the documents of the file, or the exception of    *)
(* fitz.open.  Nothing in it catches an exception.                         *)
(***************************************************************************)
_extract_pdf_structure(name, file) ==
    IF file.kind = "corrupt"
    THEN [raised |-> TRUE, docs |-> <<>>]
    ELSE IF file.kind = "blank"
    THEN [raised |-> FALSE, docs |-> <<>>]
    ELSE [raised |-> FALSE,
          docs |-> << [page_content |-> IF file.size = 1 THEN ShortText ELSE LongText,
                       metadata |-> ("source" :> name) @@ ("page" :> 1) @@
                                    ("section" :> "Strona 1") @@ ("type" :> "section")] >>]

(***************************************************************************)
(* DocumentManager.                                                        *)
(***************************************************************************)
\* the orders in which glob("*.pdf") may enumerate the directory
Listings(dir) ==
    {l \in [1..Cardinality(DOMAIN dir) -> DOMAIN dir] :
        \A i, j \in DOMAIN l : i # j => l[i] # l[j]}

\* load_pdf_documents tags each document of a file with the file's name
WithFilename(docs, name) ==
    [i \in 1..Len(docs) |->
        [docs[i] EXCEPT !.metadata = ("filename" :> name) @@ ("bibliography" :> name) @@ @]]

\* the for loop of load_pdf_documents: an exception of the extraction leaves
\* the loop and the method
RECURSIVE load_pdf_loop(_, _, _)
load_pdf_loop(dir, listing, all_documents) ==
    IF listing = <<>>
    THEN [raised |-> FALSE, docs |-> all_documents]
    ELSE LET r == _extract_pdf_structure(Head(listing), dir[Head(listing)])
         IN  IF r.raised
             THEN [raised |-> TRUE, docs |-> <<>>]
             ELSE load_pdf_loop(dir, Tail(listing),
                                all_documents \o WithFilename(r.docs, Head(listing)))

load_pdf_documents(dir, listing) == load_pdf_loop(dir, listing, <<>>)

\* requests.get, raise_for_status and get_full_content for one URL
fetch(url) ==
    IF url = "https://down" THEN [raised |-> TRUE, usable |-> FALSE]
    ELSE IF url = "https://short" THEN [raised |-> FALSE, usable |-> FALSE]
    ELSE [raised |-> FALSE, usable |-> TRUE]

\* url_document without the try block: the exception of the fetch leaves
\* the loop
url_document_uncaught(url) ==
    LET r == fetch(url)
    IN  IF r.raised
        THEN [raised |-> TRUE, docs |-> <<>>]
        ELSE IF ~r.usable
        THEN [raised |-> FALSE, docs |-> <<>>]
        ELSE [raised |-> FALSE,
              docs |-> << [page_content |-> WebText,
                           metadata |-> ("source" :> url) @@ ("type" :> "website")] >>]

\* the body of the for loop of load_url_documents: what one URL adds.  The
\* try block catches every exception of the fetch and of the processing.
url_document(url) ==
    LET r == fetch(url)
    IN  IF r.raised
        THEN [raised |-> FALSE, docs |-> <<>>]
        ELSE IF ~r.usable
        THEN [raised |-> FALSE, docs |-> <<>>]
        ELSE [raised |-> FALSE,
              docs |-> << [page_content |-> WebText,
                           metadata |-> ("source" :> url) @@ ("type" :> "website")] >>]

RECURSIVE load_url_loop(_, _)
load_url_loop(urls, url_documents) ==
    IF urls = <<>>
    THEN [raised |-> FALSE, docs |-> url_documents]
    ELSE LET r == url_document(Head(urls))
         IN  IF r.raised
             THEN [raised |-> TRUE, docs |-> <<>>]
             ELSE load_url_loop(Tail(urls), url_documents \o r.docs)

\* web_loader.load_url_documents: a missing file gives no documents, lines
\* that begin with # are skipped
load_url_documents(file) ==
    IF ~file.exists
    THEN [raised |-> FALSE, docs |-> <<>>]
    ELSE load_url_loop(SelectSeq(file.lines, LAMBDA l : l # "#comment"), <<>>)

\* _pdfs_changed that reports the change and forgets to store the snapshot
_pdfs_changed_not_stored(dir, known, mtimes) ==
    [changed |-> \/ \E n \in DOMAIN dir :
                       n \notin DOMAIN mtimes \/ mtimes[n] # dir[n].mtime
                 \/ known # DOMAIN dir,
     known   |-> known,
     mtimes  |-> mtimes]

\* DocumentManager._pdfs_changed: [changed, known, mtimes]
_pdfs_changed(dir, known, mtimes) ==
    LET current_pdfs   == DOMAIN dir
        current_mtimes == [n \in DOMAIN dir |-> dir[n].mtime]
        changed == \/ \E n \in DOMAIN dir :
                         n \notin DOMAIN mtimes \/ mtimes[n] # dir[n].mtime
                   \/ known # current_pdfs
    IN  [changed |-> changed,
         known   |-> IF changed THEN current_pdfs ELSE known,
         mtimes  |-> IF changed THEN current_mtimes ELSE mtimes]

\* _update_pdf_tracking that resets the tracker and skips the loop
_update_pdf_tracking_reset_only(dir) ==
    [known  |-> {},
     mtimes |-> NoFiles]

\* DocumentManager._update_pdf_tracking: [known, mtimes]
_update_pdf_tracking(dir) ==
    [known  |-> DOMAIN dir,
     mtimes |-> [n \in DOMAIN dir |-> dir[n].mtime]]

\* DocumentManager.load_all_documents as a function of the sources and of
\* the order of the directory listing: what it raises or returns, and the
\* tracker it leaves
load_all_documents(dir, listing, file, known, mtimes, B, O) ==
    LET pdf == load_pdf_documents(dir, listing)
        url == load_url_documents(file)
        all_documents == pdf.docs \o url.docs
        kept == [known |-> known, mtimes |-> mtimes]
    IN  IF pdf.raised
        THEN [raised |-> "FileDataError", chunks |-> <<>>,
              chunker_called |-> FALSE, tracking |-> kept]
        ELSE IF url.raised
        THEN [raised |-> "RequestException", chunks |-> <<>>,
              chunker_called |-> FALSE, tracking |-> kept]
        ELSE IF all_documents = <<>>
        THEN [raised |-> "ValueError", chunks |-> <<>>,
              chunker_called |-> FALSE, tracking |-> kept]
        ELSE [raised |-> "none", chunks |-> chunk_documents(all_documents, B, O),
              chunker_called |-> TRUE, tracking |-> _update_pdf_tracking(dir)]

\* history: the modification time each PDF had when load_pdf_documents
\* extracted it, for a run in which the extraction raised nothing
ExtractedFrom(dir, raised) ==
    IF raised = "FileDataError" THEN NoFiles ELSE [n \in DOMAIN dir |-> dir[n].mtime]

\* DocumentManager.load_all_documents()
LoadAllDocuments ==
    \E listing \in Listings(pdf_dir) :
        LET r == load_all_documents(pdf_dir, listing, urls_file, known_pdfs,
                                    pdf_mtimes, chunk_size, chunk_overlap)
        IN  /\ known_pdfs' = r.tracking.known
            /\ pdf_mtimes' = r.tracking.mtimes
            /\ snapshot_sizes' = IF r.raised = "none"
                                 THEN [n \in DOMAIN pdf_dir |-> pdf_dir[n].size]
                                 ELSE snapshot_sizes
            /\ since' = IF r.raised = "none" THEN "loaded" ELSE "other"
            /\ ret' = [op |-> "load_all_documents", after |-> since,
                       raised |-> r.raised, changed |-> FALSE, chunks |-> r.chunks,
                       chunker_called |-> r.chunker_called,
                       extracted |-> ExtractedFrom(pdf_dir, r.raised)]
            /\ UNCHANGED <<savers, extractVars, appVars, configVars, fsVars, chunkerVars, chunkVars, cacheVars>>

\* DocumentManager.has_changes()
HasChanges ==
    LET r == _pdfs_changed(pdf_dir, known_pdfs, pdf_mtimes)
    IN  /\ known_pdfs' = r.known
        /\ pdf_mtimes' = r.mtimes
        /\ snapshot_sizes' = IF r.changed
                             THEN [n \in DOMAIN pdf_dir |-> pdf_dir[n].size]
                             ELSE snapshot_sizes
        /\ since' = "checked"
        /\ ret' = [op |-> "has_changes", after |-> since, raised |-> "none",
                   changed |-> r.changed, chunks |-> <<>>, chunker_called |-> FALSE,
                   extracted |-> NoFiles]
        /\ UNCHANGED <<savers, extractVars, appVars, configVars, fsVars, chunkerVars, chunkVars, cacheVars>>

\* HRAssistantV2.reload_knowledge_base as a function of the sources and of
\* the tracker: has_changes, then _initialize_knowledge_base, whose first
\* statement is load_all_documents, when a change was reported
reload_knowledge_base(dir, listing, file, known, mtimes, B, O) ==
    LET c == _pdfs_changed(dir, known, mtimes)
        l == load_all_documents(dir, listing, file, c.known, c.mtimes, B, O)
    IN  IF c.changed
        THEN [changed |-> TRUE, raised |-> l.raised, chunks |-> l.chunks,
              chunker_called |-> l.chunker_called, tracking |-> l.tracking]
        ELSE [changed |-> FALSE, raised |-> "none", chunks |-> <<>>,
              chunker_called |-> FALSE,
              tracking |-> [known |-> c.known, mtimes |-> c.mtimes]]

\* HRAssistantV2.reload_knowledge_base(); it returns True when ret.changed
\* and nothing was raised, False when ~ret.changed
ReloadKnowledgeBase ==
    \E listing \in Listings(pdf_dir) :
        LET r == reload_knowledge_base(pdf_dir, listing, urls_file, known_pdfs,
                                       pdf_mtimes, chunk_size, chunk_overlap)
        IN  /\ known_pdfs' = r.tracking.known
            /\ pdf_mtimes' = r.tracking.mtimes
            /\ snapshot_sizes' = IF r.changed
                                 THEN [n \in DOMAIN pdf_dir |-> pdf_dir[n].size]
                                 ELSE snapshot_sizes
            /\ since' = IF ~r.changed THEN "checked"
                        ELSE IF r.raised = "none" THEN "loaded" ELSE "reload_raised"
            /\ ret' = [op |-> "reload_knowledge_base", after |-> since,
                       raised |-> r.raised, changed |-> r.changed, chunks |-> r.chunks,
                       chunker_called |-> r.chunker_called,
                       extracted |-> IF r.changed THEN ExtractedFrom(pdf_dir, r.raised)
                                     ELSE NoFiles]
            /\ UNCHANGED <<savers, extractVars, appVars, configVars, fsVars,
                           chunkerVars, chunkVars, cacheVars>>

(***************************************************************************)
(* load_all_documents while another process writes the directory.  The     *)
(* call reads the directory three times: the listing of                    *)
(* load_pdf_documents, the listing of _update_pdf_tracking, and the stat   *)
(* of each listed file in the loop of _update_pdf_tracking.                 *)
(***************************************************************************)
\* the directories one change of the other process leads to, and dir itself
AfterOneChange(dir, Files) ==
    {dir}
    \cup {(n :> f) @@ dir : n \in Names \ DOMAIN dir, f \in Files}
    \cup {[m \in DOMAIN dir \ {n} |-> dir[m]] : n \in DOMAIN dir}
    \cup UNION {{[dir EXCEPT ![n] = f] : f \in Files} : n \in DOMAIN dir}

\* the loop of _update_pdf_tracking over the listing taken, dir being the
\* directory when stat() is called: the name is added to _known_pdfs
\* before stat(), which raises for a file that is gone
RECURSIVE tracking_loop(_, _, _, _)
tracking_loop(listing, dir, known, mtimes) ==
    IF listing = <<>>
    THEN [raised |-> "none", known |-> known, mtimes |-> mtimes]
    ELSE IF Head(listing) \notin DOMAIN dir
    THEN [raised |-> "FileNotFoundError", known |-> known \cup {Head(listing)},
          mtimes |-> mtimes]
    ELSE tracking_loop(Tail(listing), dir, known \cup {Head(listing)},
                       (Head(listing) :> dir[Head(listing)].mtime) @@ mtimes)

\* load_all_documents with the directory as dir at the first listing, as
\* listing2 at the second and as dir3 at the stat() calls
load_all_documents_racing(dir, listing, file, known, mtimes, B, O, listing2, dir3) ==
    LET r == load_all_documents(dir, listing, file, known, mtimes, B, O)
        t == tracking_loop(listing2, dir3, {}, NoFiles)
    IN  IF r.raised # "none" THEN r
        ELSE IF t.raised # "none"
        THEN [raised |-> t.raised, chunks |-> <<>>, chunker_called |-> TRUE,
              tracking |-> [known |-> t.known, mtimes |-> t.mtimes]]
        ELSE [r EXCEPT !.tracking = [known |-> t.known, mtimes |-> t.mtimes]]

\* DocumentManager.load_all_documents() with at most one change of the
\* directory between the two listings and at most one file deleted between
\* the second listing and its stat()
LoadAllDocumentsRacing(Files) ==
    \E listing \in Listings(pdf_dir) :
    \E dir2 \in AfterOneChange(pdf_dir, Files) :
    \E listing2 \in Listings(dir2) :
    \E dir3 \in {dir2} \cup {[m \in DOMAIN dir2 \ {n} |-> dir2[m]] : n \in DOMAIN dir2} :
        LET r == load_all_documents_racing(pdf_dir, listing, urls_file, known_pdfs,
                                           pdf_mtimes, chunk_size, chunk_overlap,
                                           listing2, dir3)
        IN  /\ pdf_dir' = IF r.raised \in {"none", "FileNotFoundError"}
                          THEN dir3 ELSE pdf_dir
            /\ known_pdfs' = r.tracking.known
            /\ pdf_mtimes' = r.tracking.mtimes
            /\ snapshot_sizes' = IF r.raised = "none"
                                 THEN [n \in DOMAIN dir3 |-> dir3[n].size]
                                 ELSE snapshot_sizes
            /\ since' = IF r.raised = "none" THEN "loaded" ELSE "other"
            /\ ret' = [op |-> "load_all_documents", after |-> since,
                       raised |-> r.raised, changed |-> FALSE, chunks |-> r.chunks,
                       chunker_called |-> r.chunker_called,
                       extracted |-> ExtractedFrom(pdf_dir, r.raised)]
            /\ UNCHANGED <<savers, urls_file, extractVars, appVars, configVars, chunkerVars,
                           chunkVars, cacheVars>>

(***************************************************************************)
(* KorektorConfig and HRAssistantV2.__init__.                              *)
(*                                                                         *)
(* llm_temperature is counted in tenths: 3 is 0.3, 20 is 2.0.  What a      *)
(* constructor call did on the disk and the network is kept as the         *)
(* sequence of its I/O operations.                                         *)
(***************************************************************************)
NoVret == [op |-> "none", raised |-> "none", value |-> FALSE, io |-> <<>>,
           text |-> <<>>]

\* KorektorConfig.for_testing(), within the bounds of the model
for_testing ==
    [chunk_size |-> MaxChunkSize, chunk_overlap |-> 1, memory_k |-> 1, search_k |-> 1,
     llm_temperature |-> 3,
     openai_api_key |-> <<"t", "e", "s", "t", "-", "k", "e", "y">>]

InitConfig ==
    /\ config = for_testing
    /\ vret = NoVret

\* validate() that does not compare chunk_overlap with chunk_size
validate_overlap_unbounded(cfg) ==
    IF cfg.chunk_size <= 0 THEN [raised |-> "ValueError", value |-> FALSE]
    ELSE IF cfg.chunk_overlap < 0 THEN [raised |-> "ValueError", value |-> FALSE]
    ELSE IF cfg.memory_k <= 0 THEN [raised |-> "ValueError", value |-> FALSE]
    ELSE IF cfg.search_k <= 0 THEN [raised |-> "ValueError", value |-> FALSE]
    ELSE IF cfg.llm_temperature < 0 \/ cfg.llm_temperature > 20
    THEN [raised |-> "ValueError", value |-> FALSE]
    ELSE [raised |-> "none", value |-> TRUE]

\* KorektorConfig.validate(): the checks in the order of the code
validate(cfg) ==
    IF cfg.chunk_size <= 0 THEN [raised |-> "ValueError", value |-> FALSE]
    ELSE IF cfg.chunk_overlap < 0 THEN [raised |-> "ValueError", value |-> FALSE]
    ELSE IF cfg.chunk_overlap >= cfg.chunk_size
    THEN [raised |-> "ValueError", value |-> FALSE]
    ELSE IF cfg.memory_k <= 0 THEN [raised |-> "ValueError", value |-> FALSE]
    ELSE IF cfg.search_k <= 0 THEN [raised |-> "ValueError", value |-> FALSE]
    ELSE IF cfg.llm_temperature < 0 \/ cfg.llm_temperature > 20
    THEN [raised |-> "ValueError", value |-> FALSE]
    ELSE [raised |-> "none", value |-> TRUE]

\* config.validate()
Validate ==
    LET r == validate(config)
    IN  /\ vret' = [op |-> "validate", raised |-> r.raised, value |-> r.value,
                    io |-> <<>>, text |-> <<>>]
        /\ UNCHANGED <<savers, extractVars, appVars, config, fsVars, dmVars, chunkerVars, chunkVars, cacheVars>>

\* key[-4:]: the last four characters, or the whole key if it has fewer
last_four(key) ==
    IF Len(key) <= 4 THEN key ELSE SubSeq(key, Len(key) - 3, Len(key))

\* KorektorConfig.__repr__: the dictionary of the fields with the key
\* replaced by "sk-..." and its last four characters, inside
\* "KorektorConfig(...)".  The other fields are left out of the text; a
\* falsy key is printed as it is.
__repr__(cfg) ==
    <<"K", "o", "r", "e", "k", "t", "o", "r", "C", "o", "n", "f", "i", "g",
      "(", "{", "'", "o", "p", "e", "n", "a", "i", "_", "a", "p", "i", "_",
      "k", "e", "y", "'", ":", " ", "'">>
    \o (IF cfg.openai_api_key = <<>> THEN <<>>
        ELSE <<"s", "k", "-", ".", ".", ".">> \o last_four(cfg.openai_api_key))
    \o <<"'", "}", ")">>

\* repr(config)
Repr ==
    /\ vret' = [op |-> "__repr__", raised |-> "none", value |-> FALSE, io |-> <<>>,
                text |-> __repr__(config)]
    /\ UNCHANGED <<savers, extractVars, appVars, config, fsVars, dmVars, chunkerVars, chunkVars, cacheVars>>

\* the I/O of the for loop of load_pdf_documents: fitz.open on each file
\* until one raises
RECURSIVE load_pdf_io(_, _)
load_pdf_io(dir, listing) ==
    IF listing = <<>> THEN <<>>
    ELSE <<"parse_pdf">> \o
         (IF _extract_pdf_structure(Head(listing), dir[Head(listing)]).raised
          THEN <<>> ELSE load_pdf_io(dir, Tail(listing)))

\* the I/O of load_all_documents: the directory listing and the PDFs, then
\* the URL list and one request per URL, then the listing of
\* _update_pdf_tracking when the load succeeded
load_all_io(dir, listing, file) ==
    LET r == load_all_documents(dir, listing, file, {}, NoFiles, 1, 0)
    IN  <<"list_pdfs">> \o load_pdf_io(dir, listing)
        \o (IF r.raised = "FileDataError" THEN <<>>
            ELSE <<"open_urls_file">>
                 \o (IF file.exists
                     THEN [i \in 1..Len(SelectSeq(file.lines, LAMBDA l : l # "#comment"))
                             |-> "fetch_url"]
                     ELSE <<>>))
        \o (IF r.raised = "none" THEN <<"list_pdfs">> ELSE <<>>)

NotLoaded == [raised |-> "none", chunks |-> <<>>, chunker_called |-> FALSE,
              tracking |-> [known |-> {}, mtimes |-> NoFiles]]

\* HRAssistantV2.__init__ that builds the DocumentManager first and
\* validates the configuration after it
HRAssistantV2_validating_late(cfg, dir, listing, file) ==
    LET v == validate(cfg)
        r == load_all_documents(dir, listing, file, {}, NoFiles,
                                cfg.chunk_size, cfg.chunk_overlap)
    IN  IF v.raised # "none"
        THEN [raised |-> v.raised, validated |-> FALSE, io |-> <<"read_bibliography">>,
              load |-> NotLoaded]
        ELSE [raised |-> r.raised, validated |-> TRUE,
              io |-> <<"read_bibliography">> \o load_all_io(dir, listing, file)
                     \o (IF r.raised = "none" THEN <<"embed">> ELSE <<>>),
              load |-> r]

\* HRAssistantV2.__init__ with a configuration: validate(), then the
\* DocumentManager (whose constructor reads the bibliography), the
\* embeddings, LLM and memory objects, then _initialize_knowledge_base:
\* load_all_documents and FAISS.from_documents
HRAssistantV2(cfg, dir, listing, file) ==
    LET v == validate(cfg)
        r == load_all_documents(dir, listing, file, {}, NoFiles,
                                cfg.chunk_size, cfg.chunk_overlap)
    IN  IF v.raised # "none"
        THEN [raised |-> v.raised, validated |-> FALSE, io |-> <<>>,
              load |-> NotLoaded]
        ELSE [raised |-> r.raised, validated |-> TRUE,
              io |-> <<"read_bibliography">> \o load_all_io(dir, listing, file)
                     \o (IF r.raised = "none" THEN <<"embed">> ELSE <<>>),
              load |-> r]

\* HRAssistantV2(config): past validate() the assistant has a new
\* DocumentManager, with the chunker of the configuration
NewHRAssistantV2 ==
    \E listing \in Listings(pdf_dir) :
        LET r == HRAssistantV2(config, pdf_dir, listing, urls_file)
        IN  /\ vret' = [op |-> "HRAssistantV2", raised |-> r.raised, value |-> FALSE,
                        io |-> r.io, text |-> <<>>]
            /\ IF r.validated
               THEN /\ known_pdfs' = r.load.tracking.known
                    /\ pdf_mtimes' = r.load.tracking.mtimes
                    /\ snapshot_sizes' = IF r.load.raised = "none"
                                         THEN [n \in DOMAIN pdf_dir |-> pdf_dir[n].size]
                                         ELSE NoFiles
                    /\ since' = IF r.load.raised = "none" THEN "loaded" ELSE "other"
                    /\ ret' = [op |-> "load_all_documents", after |-> "other",
                               raised |-> r.load.raised, changed |-> FALSE,
                               chunks |-> r.load.chunks,
                               chunker_called |-> r.load.chunker_called,
                               extracted |-> ExtractedFrom(pdf_dir, r.load.raised)]
                    /\ chunk_size' = config.chunk_size
                    /\ chunk_overlap' = config.chunk_overlap
               ELSE UNCHANGED <<savers, extractVars, appVars, dmVars, chunkerVars>>
            /\ UNCHANGED <<savers, extractVars, appVars, config, fsVars, chunkVars, cacheVars>>

(***************************************************************************)
(* app.ask_hr_assistant: the list of sources under the answer.  A source   *)
(* is [type, page, section, bibliography, title, url]; page 0 is a source  *)
(* without a page.  The answer is kept as its source lines.                *)
(***************************************************************************)
NoAnswer == [called |-> FALSE, lines |-> <<>>]

InitApp ==
    /\ sources = <<>>
    /\ answer = NoAnswer

\* the label _extract_pdf_structure gives a page without a header
PageLabel(page) == <<"S", "t", "r", "o", "n", "a", " ">> \o str(page)

\* the body of the for loop: the line of source number i
source_text(i, source) ==
    IF source.type = "url" /\ source.url # <<>>
    THEN str(i) \o <<".", " ", "[">> \o source.title \o <<"]", "(">>
         \o source.url \o <<")">>
         \o (IF source.section # <<>> /\ source.section # source.title
             THEN <<" ", "-", " ", "_">> \o source.section \o <<"_">> ELSE <<>>)
    ELSE str(i) \o <<".", " ">> \o source.bibliography
         \o (IF source.page # 0
             THEN <<",", " ", "s", "t", "r", ".", " ">> \o str(source.page) ELSE <<>>)
         \o (IF source.section # <<>> /\ source.section # source.bibliography
             THEN <<" ", "-", " ", "_">> \o source.section \o <<"_">> ELSE <<>>)

\* ask_hr_assistant: one line for each of response['sources'][:3],
\* numbered from 1
ask_hr_assistant(srcs) ==
    [i \in 1..Min({3, Len(srcs)}) |-> source_text(i, srcs[i])]

\* ask_hr_assistant(question)
AskHrAssistant ==
    /\ answer' = [called |-> TRUE, lines |-> ask_hr_assistant(sources)]
    /\ UNCHANGED <<savers, extractVars, sources, configVars, fsVars, dmVars, chunkerVars, chunkVars,
                   cacheVars>>

(***************************************************************************)
(* _extract_pdf_structure in full, on the lines of one PDF.  A line is     *)
(* [size, text]: the largest glyph size of its spans and its text, spans   *)
(* stripped and joined; the item "break" ends a page.                      *)
(***************************************************************************)
PageBreak == [size |-> 0, text |-> <<"break">>]
NoExtracted == [called |-> FALSE, docs |-> <<>>]

InitExtract ==
    /\ pdf_items = <<>>
    /\ extracted = NoExtracted

\* the pages of the PDF: the lines between the breaks
RECURSIVE PagesOf(_, _)
PagesOf(items, page) ==
    IF items = <<>> THEN <<page>>
    ELSE IF Head(items) = PageBreak THEN <<page>> \o PagesOf(Tail(items), <<>>)
    ELSE PagesOf(Tail(items), Append(page, Head(items)))

\* the document appended for a section of a page
SectionDocument(page_text, page_num, section) ==
    [page_content |-> strip(page_text),
     metadata |-> [page |-> page_num, section |-> section, type |-> "section"]]

\* a header line that does not append the section gathered before it
header_step_not_appending(line, st, page_num) ==
    [page_text |-> st.page_text \o <<"\n", "#", "#", " ">> \o line.text \o <<"\n">>,
     current_section |-> line.text,
     documents |-> st.documents]

\* a line with max_size > 12: the section gathered under the previous
\* header is appended and page_text emptied, if there was a header before;
\* then the marker and the title go into page_text
header_step(line, st, page_num) ==
    [page_text |-> (IF st.current_section # <<>> THEN <<>> ELSE st.page_text)
                   \o <<"\n", "#", "#", " ">> \o line.text \o <<"\n">>,
     current_section |-> line.text,
     documents |-> IF st.current_section # <<>>
                   THEN Append(st.documents,
                               SectionDocument(st.page_text, page_num, st.current_section))
                   ELSE st.documents]

\* the loop over the lines of a page; st is [page_text, current_section,
\* documents]
RECURSIVE line_loop(_, _, _)
line_loop(lines, st, page_num) ==
    IF lines = <<>> THEN st
    ELSE LET line == Head(lines)
         IN  IF line.text = <<>>
             THEN line_loop(Tail(lines), st, page_num)
             ELSE IF line.size > 12
             THEN line_loop(Tail(lines), header_step(line, st, page_num), page_num)
             ELSE line_loop(Tail(lines),
                            [st EXCEPT !.page_text = @ \o line.text \o <<" ">>],
                            page_num)

\* the body of the loop over the pages, found being the documents of the
\* pages before: page_text and current_section start empty on every page,
\* the rest of page_text is appended at the end
extract_page(lines, found, page_num) ==
    LET st == line_loop(lines, [page_text |-> <<>>, current_section |-> <<>>,
                                documents |-> found], page_num)
    IN  IF strip(st.page_text) # <<>>
        THEN Append(st.documents,
                    SectionDocument(st.page_text, page_num,
                                    IF st.current_section # <<>> THEN st.current_section
                                    ELSE PageLabel(page_num)))
        ELSE st.documents

RECURSIVE page_loop(_, _, _)
page_loop(pages, found, page_num) ==
    IF pages = <<>> THEN found
    ELSE page_loop(Tail(pages), extract_page(Head(pages), found, page_num),
                   page_num + 1)

\* _extract_pdf_structure(pdf_path) on a PDF that opens
extract_pdf_structure(items) == page_loop(PagesOf(items, <<>>), <<>>, 1)

\* chunker._extract_pdf_structure(pdf_path)
ExtractPdfStructure ==
    /\ extracted' = [called |-> TRUE, docs |-> extract_pdf_structure(pdf_items)]
    /\ UNCHANGED <<savers, pdf_items, appVars, configVars, fsVars, dmVars, chunkerVars,
                   chunkVars, cacheVars>>

(***************************************************************************)
(* VectorStoreCache.                                                       *)
(*                                                                         *)
(* metadata.json is [kind, stats_ok, has_hash, content_hash]: kind         *)
(* "missing" is no file, "unreadable" a file open() refuses,               *)
(* "invalid_json" a file json.load rejects, "falsy" a JSON value Python    *)
(* takes for false (null, 0, "", [], {}), "truthy_non_object" any other    *)
(* JSON value that is not an object, "object" a non-empty JSON object;     *)
(* has_hash and content_hash are its "content_hash" member, and stats_ok   *)
(* is false for an object whose "stats" member is not an object of         *)
(* numbers.  The index directory is [state,                                *)
(* built_from]: "missing", "corrupt" (FAISS.load_local raises) or          *)
(* "intact"; built_from is the fingerprint the sources had when the index  *)
(* was built.                                                              *)
(***************************************************************************)
NoMetadata == [kind |-> "missing", stats_ok |-> TRUE, has_hash |-> FALSE, content_hash |-> <<>>]
NoIndex    == [state |-> "missing", built_from |-> <<>>]
NoCret     == [op |-> "none", after |-> "other", raised |-> "none", value |-> FALSE,
               loaded |-> FALSE, built_from |-> <<>>, extractions |-> 0, hit |-> FALSE,
               fault |-> "none", saved |-> "no", dir_exists |-> TRUE]

\* a file name, one character per element
NameText(n) ==
    IF n = "a.pdf" THEN <<"a", ".", "p", "d", "f">>
    ELSE IF n = "b.pdf" THEN <<"b", ".", "p", "d", "f">>
    ELSE IF n = "1.pdf" THEN <<"1", ".", "p", "d", "f">>
    ELSE IF n = "5.pdf" THEN <<"5", ".", "p", "d", "f">>
    ELSE <<"5", "5", ".", "p", "d", "f">>

\* the code point of a character of a file name
Ord(ch) ==
    IF ch = "." THEN 46
    ELSE IF ch = "1" THEN 49 ELSE IF ch = "5" THEN 53
    ELSE IF ch = "a" THEN 97 ELSE IF ch = "b" THEN 98 ELSE IF ch = "d" THEN 100
    ELSE IF ch = "f" THEN 102 ELSE 112

\* s < t for strings, as Python compares them
RECURSIVE Before(_, _)
Before(s, t) ==
    IF t = <<>> THEN FALSE
    ELSE IF s = <<>> THEN TRUE
    ELSE IF Head(s) # Head(t) THEN Ord(Head(s)) < Ord(Head(t))
    ELSE Before(Tail(s), Tail(t))

\* the position of a name among the names of a list, in sort order
NameRank(n, listing) ==
    1 + Cardinality({i \in 1..Len(listing) : Before(NameText(listing[i]), NameText(n))})

\* pdf_files left in the order glob() gave them
unsorted(listing) == listing

\* sorted(pdf_path.glob("*.pdf")): the names of the listing in ascending order
sorted(listing) ==
    [k \in 1..Len(listing) |->
        CHOOSE n \in {listing[i] : i \in 1..Len(listing)} : NameRank(n, listing) = k]

\* str() of the float st_mtime; a modification time is counted in hundredths
\* of a second: 200 prints "2.0", 250 "2.5", 205 "2.05"
repr_mtime(t) ==
    str(t \div 100) \o <<".">> \o
    (IF t % 10 = 0 THEN <<Digit[((t % 100) \div 10) + 1]>>
     ELSE <<Digit[((t % 100) \div 10) + 1], Digit[(t % 10) + 1]>>)

\* f"{pdf_file.name}:{stat.st_size}:{stat.st_mtime}"
FileEntry(n, file) ==
    NameText(n) \o <<":">> \o str(file.size) \o <<":">> \o repr_mtime(file.mtime)

\* f.read() of the URL list: each line and its newline; a line stands for
\* its characters
UrlsContent(file) == join([i \in 1..Len(file.lines) |-> <<file.lines[i], "\n">>])

\* _calculate_content_hash on a directory that glob() enumerates in the
\* order of listing: the bytes given to md5, in order.  The digest is taken
\* as one-to-one on them, so the byte string stands for the digest.
content_hash_bytes(dir, listing, file) ==
    LET pdf_files == sorted(listing)
    IN  join([i \in 1..Len(pdf_files) |-> FileEntry(pdf_files[i], dir[pdf_files[i]])])
        \o (IF file.exists THEN UrlsContent(file) ELSE <<>>)

\* _calculate_content_hash, glob() enumerating in any one order
_calculate_content_hash(dir, file) ==
    content_hash_bytes(dir, CHOOSE l \in Listings(dir) : TRUE, file)

NoHashed == [called |-> FALSE, listing |-> <<>>, dir |-> NoFiles,
             file |-> [exists |-> FALSE, lines |-> <<>>], value |-> <<>>,
             prev_called |-> FALSE, prev_dir |-> NoFiles,
             prev_file |-> [exists |-> FALSE, lines |-> <<>>], prev_value |-> <<>>]

\* VectorStoreCache._calculate_content_hash(pdf_directory, urls_file)
CalculateContentHash ==
    /\ \E listing \in Listings(pdf_dir) :
          hashed' = [called |-> TRUE, listing |-> listing, dir |-> pdf_dir,
                     file |-> urls_file,
                     value |-> content_hash_bytes(pdf_dir, listing, urls_file),
                     prev_called |-> hashed.called, prev_dir |-> hashed.dir,
                     prev_file |-> hashed.file, prev_value |-> hashed.value]
    /\ UNCHANGED <<savers, extractVars, appVars, configVars, fsVars, dmVars, chunkerVars, chunkVars, metadata_file,
                   faiss_index, lazy_vectorstore, cache_since, cret>>

\* _save_metadata that writes the fingerprint under another key than the
\* one is_cache_valid reads
_save_metadata_other_key(content_hash) ==
    [kind |-> "object", stats_ok |-> TRUE, has_hash |-> FALSE, content_hash |-> <<>>]

\* _save_metadata: json.dump of {"content_hash", "created_at", "stats"}
_save_metadata(content_hash) ==
    [kind |-> "object", stats_ok |-> TRUE, has_hash |-> TRUE,
     content_hash |-> content_hash]

\* _load_metadata: the parsed JSON value, or None for a missing file and for
\* every exception of open and json.load
_load_metadata(meta) ==
    IF meta.kind \in {"missing", "unreadable", "invalid_json"}
    THEN [meta EXCEPT !.kind = "none"]
    ELSE meta

\* is_cache_valid: `not metadata` holds for None and for the falsy values;
\* metadata.get raises AttributeError on a value that is not an object
is_cache_valid(meta, dir, file) ==
    LET metadata == _load_metadata(meta)
    IN  IF metadata.kind \in {"none", "falsy"}
        THEN [raised |-> "none", value |-> FALSE]
        ELSE IF metadata.kind = "truthy_non_object"
        THEN [raised |-> "AttributeError", value |-> FALSE]
        ELSE [raised |-> "none",
              value |-> /\ metadata.has_hash
                        /\ metadata.content_hash = _calculate_content_hash(dir, file)]

\* where save_vectorstore can fail: nowhere; before save_local writes; in
\* save_local, part of the index written; after save_local (the fingerprint,
\* the statistics, opening metadata.json); in json.dump, part of
\* metadata.json written
SaveFaults == {"none", "before_index", "in_index", "after_index", "in_metadata"}

\* save_vectorstore without the try block: a failure leaves it as an exception
save_vectorstore_uncaught(meta, index, vectorstore, dir, file, fault) ==
    LET written == [state |-> "intact", built_from |-> vectorstore.built_from]
    IN  IF fault = "before_index"
        THEN [ok |-> FALSE, raised |-> "Exception", metadata |-> meta, index |-> index]
        ELSE IF fault = "in_index"
        THEN [ok |-> FALSE, raised |-> "Exception", metadata |-> meta,
              index |-> [state |-> "corrupt", built_from |-> <<>>]]
        ELSE IF fault = "after_index"
        THEN [ok |-> FALSE, raised |-> "Exception", metadata |-> meta, index |-> written]
        ELSE IF fault = "in_metadata"
        THEN [ok |-> FALSE, raised |-> "Exception", index |-> written,
              metadata |-> [kind |-> "invalid_json", stats_ok |-> TRUE, has_hash |-> FALSE,
                            content_hash |-> <<>>]]
        ELSE [ok |-> TRUE, raised |-> "none", index |-> written,
              metadata |-> _save_metadata(_calculate_content_hash(dir, file))]

\* save_vectorstore: every exception is caught and turns into False
save_vectorstore(meta, index, vectorstore, dir, file, fault) ==
    LET written == [state |-> "intact", built_from |-> vectorstore.built_from]
    IN  IF fault = "before_index"
        THEN [ok |-> FALSE, raised |-> "none", metadata |-> meta, index |-> index]
        ELSE IF fault = "in_index"
        THEN [ok |-> FALSE, raised |-> "none", metadata |-> meta,
              index |-> [state |-> "corrupt", built_from |-> <<>>]]
        ELSE IF fault = "after_index"
        THEN [ok |-> FALSE, raised |-> "none", metadata |-> meta, index |-> written]
        ELSE IF fault = "in_metadata"
        THEN [ok |-> FALSE, raised |-> "none", index |-> written,
              metadata |-> [kind |-> "invalid_json", stats_ok |-> TRUE, has_hash |-> FALSE,
                            content_hash |-> <<>>]]
        ELSE [ok |-> TRUE, raised |-> "none", index |-> written,
              metadata |-> _save_metadata(_calculate_content_hash(dir, file))]

\* load_vectorstore without the try block
load_vectorstore_uncaught(meta, index) ==
    IF index.state = "missing"
    THEN [raised |-> "none", loaded |-> FALSE, built_from |-> <<>>]
    ELSE IF index.state = "corrupt"
    THEN [raised |-> "Exception", loaded |-> FALSE, built_from |-> <<>>]
    ELSE IF _load_metadata(meta).kind = "truthy_non_object"
    THEN [raised |-> "AttributeError", loaded |-> FALSE, built_from |-> <<>>]
    ELSE IF _load_metadata(meta).kind = "object" /\ ~meta.stats_ok
    THEN [raised |-> "AttributeError", loaded |-> FALSE, built_from |-> <<>>]
    ELSE [raised |-> "none", loaded |-> TRUE, built_from |-> index.built_from]

\* load_vectorstore: None for a missing index and for every exception: of
\* FAISS.load_local, of metadata.get on a value that is not an object, and
\* of stats.get and the number format in the log line.  Metadata that
\* _load_metadata gives up on (None) or that is falsy is not looked into.
load_vectorstore(meta, index) ==
    IF index.state = "missing"
    THEN [raised |-> "none", loaded |-> FALSE, built_from |-> <<>>]
    ELSE IF index.state = "corrupt"
    THEN [raised |-> "none", loaded |-> FALSE, built_from |-> <<>>]
    ELSE IF _load_metadata(meta).kind = "truthy_non_object"
    THEN [raised |-> "none", loaded |-> FALSE, built_from |-> <<>>]
    ELSE IF _load_metadata(meta).kind = "object" /\ ~meta.stats_ok
    THEN [raised |-> "none", loaded |-> FALSE, built_from |-> <<>>]
    ELSE [raised |-> "none", loaded |-> TRUE, built_from |-> index.built_from]

(***************************************************************************)
(* HRAssistant, as far as the cache's callers use it.                      *)
(***************************************************************************)
\* HRAssistant._load_url_documents: every failure is caught, what is left
\* are the documents of the URLs that gave usable content
_load_url_documents(file) ==
    IF ~file.exists THEN <<>>
    ELSE SelectSeq(SelectSeq(file.lines, LAMBDA l : l # "#comment"),
                   LAMBDA url : ~fetch(url).raised /\ fetch(url).usable)

\* HRAssistant._load_and_process_documents: extracts every PDF (an exception
\* of the extraction leaves the method), fetches the URLs, raises ValueError
\* without documents, chunks, and builds the FAISS index from the chunks
_load_and_process_documents(dir, file) ==
    IF \E n \in DOMAIN dir : _extract_pdf_structure(n, dir[n]).raised
    THEN [raised |-> "FileDataError", built_from |-> <<>>]
    ELSE IF /\ \A n \in DOMAIN dir : _extract_pdf_structure(n, dir[n]).docs = <<>>
            /\ _load_url_documents(file) = <<>>
    THEN [raised |-> "ValueError", built_from |-> <<>>]
    ELSE [raised |-> "none", built_from |-> _calculate_content_hash(dir, file)]

\* HRAssistant.__init__: it loads and processes the documents itself
HRAssistant(dir, file) == _load_and_process_documents(dir, file)

(***************************************************************************)
(* The calls on the cache.                                                 *)
(***************************************************************************)
CacheCall(meta2, index2, lazy2, since2, r) ==
    /\ metadata_file' = meta2
    /\ faiss_index' = index2
    /\ lazy_vectorstore' = lazy2
    /\ cache_since' = since2
    /\ cret' = r
    /\ UNCHANGED <<savers, extractVars, appVars, configVars, fsVars, dmVars, chunkerVars, chunkVars, hashed>>

\* IsCacheValid that removes a cache entry it finds out of date
IsCacheValidRemovingStale ==
    LET r == is_cache_valid(metadata_file, pdf_dir, urls_file)
    IN  CacheCall(IF r.value THEN metadata_file ELSE NoMetadata,
                  IF r.value THEN faiss_index ELSE NoIndex,
                  lazy_vectorstore, cache_since,
                  [NoCret EXCEPT !.op = "is_cache_valid", !.after = cache_since,
                                 !.raised = r.raised, !.value = r.value])

\* VectorStoreCache.is_cache_valid(pdf_directory, urls_file)
IsCacheValid ==
    LET r == is_cache_valid(metadata_file, pdf_dir, urls_file)
    IN  CacheCall(metadata_file, faiss_index, lazy_vectorstore, cache_since,
                  [NoCret EXCEPT !.op = "is_cache_valid", !.after = cache_since,
                                 !.raised = r.raised, !.value = r.value])

\* VectorStoreCache.load_vectorstore(embeddings)
LoadVectorstore ==
    LET r == load_vectorstore(metadata_file, faiss_index)
    IN  CacheCall(metadata_file, faiss_index, lazy_vectorstore, cache_since,
                  [NoCret EXCEPT !.op = "load_vectorstore", !.after = cache_since,
                                 !.raised = r.raised, !.loaded = r.loaded,
                                 !.built_from = r.built_from])

\* the indexes a caller can pass to save_vectorstore: one it has just built
\* from the sources, or the one the LazyVectorStore holds
HeldVectorstores ==
    LET built == _load_and_process_documents(pdf_dir, urls_file)
    IN  (IF built.raised = "none" THEN {[built_from |-> built.built_from]} ELSE {})
        \cup (IF lazy_vectorstore.loaded
              THEN {[built_from |-> lazy_vectorstore.built_from]} ELSE {})

\* VectorStoreCache.save_vectorstore(vectorstore, pdf_directory, urls_file)
SaveVectorstore ==
    \E fault \in SaveFaults :
    \E vectorstore \in HeldVectorstores :
        LET r == save_vectorstore(metadata_file, faiss_index, vectorstore,
                                  pdf_dir, urls_file, fault)
        IN  CacheCall(r.metadata, r.index, lazy_vectorstore,
                      IF r.ok THEN "saved" ELSE "other",
                      [NoCret EXCEPT !.op = "save_vectorstore", !.after = cache_since,
                                     !.raised = r.raised, !.value = r.ok,
                                     !.fault = fault,
                                     !.built_from = vectorstore.built_from])

\* get_cache_info: {"exists": False} without usable metadata, else what the
\* metadata and the index directory tell; it writes nothing
get_cache_info(meta, index) ==
    LET metadata == _load_metadata(meta)
    IN  IF metadata.kind \in {"none", "falsy"}
        THEN [raised |-> "none", exists |-> FALSE, index_exists |-> FALSE]
        ELSE IF metadata.kind = "truthy_non_object"
        THEN [raised |-> "AttributeError", exists |-> FALSE, index_exists |-> FALSE]
        ELSE [raised |-> "none", exists |-> TRUE,
              index_exists |-> index.state # "missing"]

\* VectorStoreCache.get_cache_info()
GetCacheInfo ==
    LET r == get_cache_info(metadata_file, faiss_index)
    IN  CacheCall(metadata_file, faiss_index, lazy_vectorstore, cache_since,
                  [NoCret EXCEPT !.op = "get_cache_info", !.after = cache_since,
                                 !.raised = r.raised, !.value = r.exists,
                                 !.loaded = r.index_exists])

\* where clear_cache can fail: nowhere; in rmtree before anything is
\* removed; in rmtree with metadata.json removed and the index left, or the
\* other way round; in mkdir after everything is removed
ClearFaults == {"none", "rmtree", "rmtree_index_left", "rmtree_metadata_left", "mkdir"}

\* clear_cache: shutil.rmtree of the cache directory, then mkdir; every
\* exception is caught and turns into False
clear_cache(meta, index, fault) ==
    IF fault = "rmtree"
    THEN [ok |-> FALSE, metadata |-> meta, index |-> index, dir_exists |-> TRUE]
    ELSE IF fault = "rmtree_index_left"
    THEN [ok |-> FALSE, metadata |-> NoMetadata, index |-> index, dir_exists |-> TRUE]
    ELSE IF fault = "rmtree_metadata_left"
    THEN [ok |-> FALSE, metadata |-> meta, index |-> NoIndex, dir_exists |-> TRUE]
    ELSE IF fault = "mkdir"
    THEN [ok |-> FALSE, metadata |-> NoMetadata, index |-> NoIndex, dir_exists |-> FALSE]
    ELSE [ok |-> TRUE, metadata |-> NoMetadata, index |-> NoIndex, dir_exists |-> TRUE]

\* VectorStoreCache.clear_cache()
ClearCache ==
    \E fault \in ClearFaults :
        LET r == clear_cache(metadata_file, faiss_index, fault)
        IN  CacheCall(r.metadata, r.index, lazy_vectorstore, "other",
                      [NoCret EXCEPT !.op = "clear_cache", !.after = cache_since,
                                     !.value = r.ok, !.fault = fault,
                                     !.dir_exists = r.dir_exists])

\* create_optimized_hr_assistant(openai_api_key, pdf_directory, use_cache).
\* extractions counts the runs of _load_and_process_documents, hit tells
\* that the assistant returned holds the index loaded from the cache.
create_optimized_hr_assistant(meta, index, dir, file, use_cache, fault) ==
    LET none   == [raised |-> "none", hit |-> FALSE, extractions |-> 0,
                   built_from |-> <<>>, saved |-> "no", metadata |-> meta, index |-> index]
        valid  == IF use_cache THEN is_cache_valid(meta, dir, file)
                  ELSE [raised |-> "none", value |-> FALSE]
        hr     == HRAssistant(dir, file)
        cached == load_vectorstore(meta, index)
        s      == save_vectorstore(meta, index, hr, dir, file, fault)
    IN  IF valid.raised # "none"
        THEN [none EXCEPT !.raised = valid.raised]
        ELSE IF hr.raised # "none"
        THEN [none EXCEPT !.raised = hr.raised, !.extractions = 1]
        ELSE IF valid.value /\ cached.loaded
        THEN [none EXCEPT !.hit = TRUE, !.extractions = 1,
                          !.built_from = cached.built_from]
        ELSE [none EXCEPT !.extractions = IF valid.value THEN 2 ELSE 1,
                          !.built_from = hr.built_from,
                          !.saved = IF ~use_cache THEN "no"
                                    ELSE IF s.ok THEN "ok" ELSE "failed",
                          !.metadata = IF use_cache THEN s.metadata ELSE meta,
                          !.index = IF use_cache THEN s.index ELSE index]

\* what a call leaves of the history "saved": a save that returned True
\* starts it, a save that returned False ends it
SinceSave(saved) ==
    IF saved = "ok" THEN "saved" ELSE IF saved = "failed" THEN "other" ELSE cache_since

\* the faults a call can meet in save_vectorstore: none when it does not
\* get as far as saving
FaultsOf(saved) == IF saved = "no" THEN {"none"} ELSE SaveFaults

CreateOptimizedHrAssistant ==
    \E use_cache \in BOOLEAN :
    \E fault \in FaultsOf(create_optimized_hr_assistant(metadata_file, faiss_index,
                               pdf_dir, urls_file, use_cache, "none").saved) :
        LET r == create_optimized_hr_assistant(metadata_file, faiss_index, pdf_dir,
                                               urls_file, use_cache, fault)
        IN  CacheCall(r.metadata, r.index, lazy_vectorstore, SinceSave(r.saved),
                      [NoCret EXCEPT !.op = "create_optimized_hr_assistant",
                                     !.after = cache_since, !.raised = r.raised,
                                     !.value = use_cache, !.loaded = r.raised = "none",
                                     !.built_from = r.built_from,
                                     !.extractions = r.extractions, !.hit = r.hit,
                                     !.saved = r.saved])

(***************************************************************************)
(* LazyVectorStore, constructed with cache_enabled = True.  What the       *)
(* hr_assistant_factory does is the caller's choice: "HRAssistant" calls   *)
(* the constructor, "prepared" hands out an assistant made beforehand.     *)
(***************************************************************************)
Factories == {"HRAssistant", "prepared"}
NoVectorstore == [loaded |-> FALSE, built_from |-> <<>>]

\* LazyVectorStore._load_or_create_vectorstore
_load_or_create_vectorstore(meta, index, dir, file, factory, fault) ==
    LET none   == [raised |-> "none", hit |-> FALSE, extractions |-> 0,
                   built_from |-> <<>>, saved |-> "no", metadata |-> meta, index |-> index]
        made   == IF factory = "HRAssistant" THEN 1 ELSE 0
        hr     == IF factory = "HRAssistant" THEN HRAssistant(dir, file)
                  ELSE [raised |-> "none", built_from |-> <<>>]
        valid  == is_cache_valid(meta, dir, file)
        cached == load_vectorstore(meta, index)
        fresh  == _load_and_process_documents(dir, file)
        s      == save_vectorstore(meta, index, fresh, dir, file, fault)
    IN  IF hr.raised # "none"
        THEN [none EXCEPT !.raised = hr.raised, !.extractions = made]
        ELSE IF valid.raised # "none"
        THEN [none EXCEPT !.raised = valid.raised, !.extractions = made]
        ELSE IF valid.value /\ cached.loaded
        THEN [none EXCEPT !.hit = TRUE, !.extractions = made,
                          !.built_from = cached.built_from]
        ELSE IF fresh.raised # "none"
        THEN [none EXCEPT !.raised = fresh.raised, !.extractions = made + 1]
        ELSE [none EXCEPT !.extractions = made + 1, !.built_from = fresh.built_from,
                          !.saved = IF s.ok THEN "ok" ELSE "failed",
                          !.metadata = s.metadata, !.index = s.index]

\* the property LazyVectorStore.vectorstore
LazyVectorStoreVectorstore ==
    IF lazy_vectorstore.loaded
    THEN CacheCall(metadata_file, faiss_index, lazy_vectorstore, cache_since,
                   [NoCret EXCEPT !.op = "LazyVectorStore.vectorstore",
                                  !.after = cache_since, !.loaded = TRUE,
                                  !.built_from = lazy_vectorstore.built_from])
    ELSE \E factory \in Factories :
         \E fault \in FaultsOf(_load_or_create_vectorstore(metadata_file, faiss_index,
                                    pdf_dir, urls_file, factory, "none").saved) :
            LET r == _load_or_create_vectorstore(metadata_file, faiss_index, pdf_dir,
                                                 urls_file, factory, fault)
            IN  CacheCall(r.metadata, r.index,
                          IF r.raised = "none"
                          THEN [loaded |-> TRUE, built_from |-> r.built_from]
                          ELSE NoVectorstore,
                          SinceSave(r.saved),
                          [NoCret EXCEPT !.op = "LazyVectorStore.vectorstore",
                                         !.after = cache_since, !.raised = r.raised,
                                         !.value = TRUE, !.loaded = r.raised = "none",
                                         !.built_from = r.built_from,
                                         !.extractions = r.extractions, !.hit = r.hit,
                                         !.saved = r.saved])

\* LazyVectorStore.invalidate_cache()
InvalidateCache ==
    \E fault \in ClearFaults :
        LET r == clear_cache(metadata_file, faiss_index, fault)
        IN  CacheCall(r.metadata, r.index, NoVectorstore, "other",
                      [NoCret EXCEPT !.op = "invalidate_cache", !.after = cache_since,
                                     !.fault = fault, !.dir_exists = r.dir_exists])

(***************************************************************************)
(* save_vectorstore called by two processes on one cache directory.  The   *)
(* call takes no lock; its steps are save_local, _calculate_content_hash   *)
(* and _save_metadata, and the steps of the two calls interleave freely.   *)
(***************************************************************************)
Procs == {1, 2}
IdleCall == [pc |-> "idle", vectorstore |-> NoVectorstore, content_hash |-> <<>>]

InitSavers ==
    savers = [calls |-> [p \in Procs |-> IdleCall], index_by |-> 0, metadata_by |-> 0]

\* what a step of a concurrent call leaves alone
SaverFrame ==
    /\ cache_since' = "other"
    /\ cret' = NoCret
    /\ UNCHANGED <<lazy_vectorstore, hashed, extractVars, appVars, configVars, fsVars,
                   dmVars, chunkerVars, chunkVars>>

\* process p enters save_vectorstore with an index built from the sources
SaveEnter(p) ==
    /\ savers.calls[p].pc = "idle"
    /\ \E vectorstore \in HeldVectorstores :
          savers' = [savers EXCEPT !.calls[p] =
                        [pc |-> "save_local",
                         vectorstore |-> [loaded |-> TRUE,
                                          built_from |-> vectorstore.built_from],
                         content_hash |-> <<>>]]
    /\ UNCHANGED <<metadata_file, faiss_index>>
    /\ SaverFrame

\* vectorstore.save_local(index_path)
SaveLocal(p) ==
    /\ savers.calls[p].pc = "save_local"
    /\ faiss_index' = [state |-> "intact",
                       built_from |-> savers.calls[p].vectorstore.built_from]
    /\ savers' = [savers EXCEPT !.calls[p].pc = "content_hash", !.index_by = p]
    /\ UNCHANGED metadata_file
    /\ SaverFrame

\* content_hash = self._calculate_content_hash(pdf_directory, urls_file)
SaveContentHash(p) ==
    /\ savers.calls[p].pc = "content_hash"
    /\ savers' = [savers EXCEPT
                     !.calls[p].pc = "_save_metadata",
                     !.calls[p].content_hash = _calculate_content_hash(pdf_dir, urls_file)]
    /\ UNCHANGED <<metadata_file, faiss_index>>
    /\ SaverFrame

\* self._save_metadata(content_hash, stats); return True
SaveMetadataAndReturn(p) ==
    /\ savers.calls[p].pc = "_save_metadata"
    /\ metadata_file' = _save_metadata(savers.calls[p].content_hash)
    /\ savers' = [savers EXCEPT !.calls[p].pc = "returned", !.metadata_by = p]
    /\ UNCHANGED faiss_index
    /\ SaverFrame

(***************************************************************************)
(* The environment: files and the URL list change between calls.           *)
(***************************************************************************)
\* what the step from dir to dir2 leaves of the history: a step that changes
\* the set of names or a modification time ends "checked", and turns
\* "loaded" into "loaded, then one change"; any change of a file ends
\* "reload_raised"
SinceAfter(dir, dir2) ==
    IF /\ DOMAIN dir = DOMAIN dir2
       /\ \A n \in DOMAIN dir : dir[n].mtime = dir2[n].mtime
    THEN IF since = "reload_raised" /\ dir # dir2 THEN "other" ELSE since
    ELSE IF since = "loaded" THEN "loaded_changed" ELSE "other"

\* the step leaves the names, sizes and modification times of the PDF files
\* and the URL list as they were
SourcesUnchanged(dir, file, dir2, file2) ==
    /\ DOMAIN dir = DOMAIN dir2
    /\ \A n \in DOMAIN dir : dir[n].size = dir2[n].size /\ dir[n].mtime = dir2[n].mtime
    /\ file = file2

FsStep(dir2, file2) ==
    /\ pdf_dir' = dir2
    /\ urls_file' = file2
    /\ since' = SinceAfter(pdf_dir, dir2)
    /\ ret' = NoRet
    /\ cache_since' = IF SourcesUnchanged(pdf_dir, urls_file, dir2, file2)
                      THEN cache_since ELSE "other"
    /\ cret' = NoCret
    /\ vret' = NoVret
    /\ UNCHANGED <<savers, extractVars, appVars, config, known_pdfs, pdf_mtimes, snapshot_sizes, chunkerVars,
                   chunkVars, metadata_file, faiss_index, lazy_vectorstore, hashed>>

\* a file with one of the names Among appears in the directory
AddPdfAmong(Among, Files) ==
    \E n \in Among \ DOMAIN pdf_dir, f \in Files :
        FsStep((n :> f) @@ pdf_dir, urls_file)

AddPdf(Files) == AddPdfAmong(Names, Files)

\* a file is deleted
RemovePdf ==
    \E n \in DOMAIN pdf_dir :
        FsStep([m \in DOMAIN pdf_dir \ {n} |-> pdf_dir[m]], urls_file)

\* a file is rewritten or touched: any of size, mtime and content changes
WritePdf(Files) ==
    \E n \in DOMAIN pdf_dir :
        \E f \in Files \ {pdf_dir[n]} :
            FsStep([pdf_dir EXCEPT ![n] = f], urls_file)

\* a file gets another of the names Among
RenamePdf(Among) ==
    \E n \in DOMAIN pdf_dir, n2 \in Among \ DOMAIN pdf_dir :
        FsStep((n2 :> pdf_dir[n]) @@ [m \in DOMAIN pdf_dir \ {n} |-> pdf_dir[m]],
               urls_file)

\* the URL list gets one more line
AppendUrl ==
    /\ Len(urls_file.lines) < MaxUrls
    /\ \E l \in UrlLines :
          FsStep(pdf_dir, [exists |-> TRUE, lines |-> Append(urls_file.lines, l)])

\* the URL list is deleted
RemoveUrls ==
    /\ urls_file.exists
    /\ FsStep(pdf_dir, [exists |-> FALSE, lines |-> <<>>])

\* the URL list is written anew
WriteUrls(Lists) ==
    \E lines \in Lists :
        /\ urls_file # [exists |-> TRUE, lines |-> lines]
        /\ FsStep(pdf_dir, [exists |-> TRUE, lines |-> lines])

(***************************************************************************)
(* SpecChunk: chunk_documents applied to every bounded list of documents.  *)
(***************************************************************************)
Chars == {"a", " ", "\n", "#", "."}

\* metadata an extractor gives the i-th document of the list
SourceMeta(i) == ("source" :> "a.pdf") @@ ("page" :> i)

TotalLen(docs) == Len(join([i \in 1..Len(docs) |-> docs[i].page_content]))

InitFs ==
    /\ pdf_dir = NoFiles
    /\ urls_file = [exists |-> FALSE, lines |-> <<>>]

InitCache ==
    /\ metadata_file = NoMetadata
    /\ faiss_index = NoIndex
    /\ lazy_vectorstore = NoVectorstore
    /\ cache_since = "other"
    /\ cret = NoCret
    /\ hashed = NoHashed

InitDM ==
    /\ known_pdfs = {}
    /\ pdf_mtimes = NoFiles
    /\ snapshot_sizes = NoFiles
    /\ since = "other"
    /\ ret = NoRet

InitChunk ==
    /\ chunk_size \in 1..MaxChunkSize
    /\ chunk_overlap \in 0..(chunk_size - 1)
    /\ documents = <<>>
    /\ chunked_docs = [called |-> FALSE, docs |-> <<>>]
    /\ InitFs
    /\ InitDM
    /\ InitSavers
    /\ InitExtract
    /\ InitApp
    /\ InitConfig
    /\ InitCache

\* the caller appends one more document to the list
NewDocument ==
    /\ ~chunked_docs.called
    /\ Len(documents) < MaxDocs
    /\ TotalLen(documents) < MaxTextLen
    /\ \E c \in Chars :
          documents' = Append(documents, [page_content |-> <<c>>,
                                          metadata |-> SourceMeta(Len(documents) + 1)])
    /\ UNCHANGED <<savers, extractVars, appVars, configVars, chunked_docs, chunkerVars, fsVars, dmVars, cacheVars>>

\* the last document's text grows by one character
AppendChar ==
    /\ ~chunked_docs.called
    /\ documents # <<>>
    /\ TotalLen(documents) < MaxTextLen
    /\ \E c \in Chars :
          documents' = [documents EXCEPT ![Len(documents)].page_content = Append(@, c)]
    /\ UNCHANGED <<savers, extractVars, appVars, configVars, chunked_docs, chunkerVars, fsVars, dmVars, cacheVars>>

ChunkDocuments ==
    /\ ~chunked_docs.called
    /\ chunked_docs' = [called |-> TRUE,
                        docs |-> chunk_documents(documents, chunk_size, chunk_overlap)]
    /\ UNCHANGED <<savers, extractVars, appVars, configVars, documents, chunkerVars, fsVars, dmVars, cacheVars>>

NextChunk == NewDocument \/ AppendChar \/ ChunkDocuments

SpecChunk == InitChunk /\ [][NextChunk]_vars

(***************************************************************************)
(* SpecLoad: load_all_documents over every bounded set of sources.  The    *)
(* directory holds large files of every kind, all with the same mtime.     *)
(***************************************************************************)
LoadFiles == [size : {2}, mtime : {1}, kind : Kinds]

InitLoad ==
    /\ InitFs
    /\ InitDM
    /\ InitSavers
    /\ InitExtract
    /\ InitApp
    /\ InitConfig
    /\ chunk_size = MaxChunkSize
    /\ chunk_overlap = 1
    /\ documents = <<>>
    /\ chunked_docs = [called |-> FALSE, docs |-> <<>>]
    /\ InitCache

NextLoad ==
    \/ LoadAllDocuments
    \/ AddPdf(LoadFiles)
    \/ RemovePdf
    \/ WritePdf(LoadFiles)
    \/ AppendUrl
    \/ RemoveUrls

SpecLoad == InitLoad /\ [][NextLoad]_vars

(***************************************************************************)
(* SpecDM: the change tracker of DocumentManager over a directory whose    *)
(* files are added, removed, rewritten and touched.                        *)
(***************************************************************************)
TrackedFiles == [size : Sizes, mtime : Mtimes, kind : {"text", "corrupt"}]

InitTracked ==
    /\ pdf_dir = NoFiles
    /\ urls_file \in {[exists |-> FALSE, lines |-> <<>>],
                      [exists |-> TRUE, lines |-> <<"https://ok">>]}
    /\ InitDM
    /\ InitSavers
    /\ InitExtract
    /\ InitApp
    /\ InitConfig
    /\ chunk_size = MaxChunkSize
    /\ chunk_overlap = 1
    /\ documents = <<>>
    /\ chunked_docs = [called |-> FALSE, docs |-> <<>>]
    /\ InitCache

NextDM ==
    \/ LoadAllDocuments
    \/ HasChanges
    \/ AddPdf(TrackedFiles)
    \/ RemovePdf
    \/ WritePdf(TrackedFiles)

SpecDM == InitTracked /\ [][NextDM]_vars

(***************************************************************************)
(* SpecCache: the cache and its callers over sources that change, started  *)
(* on every cache directory an earlier run or another program can have     *)
(* left.                                                                   *)
(***************************************************************************)
CacheNames == {"a.pdf"}
CacheFiles == {[size |-> 1, mtime |-> 1, kind |-> "text"],
               [size |-> 2, mtime |-> 2, kind |-> "text"]}
CacheUrlLists == {<<"https://ok">>}

\* the sources of an earlier run
PriorHash == _calculate_content_hash(("a.pdf" :> [size |-> 1, mtime |-> 1, kind |-> "text"]),
                                     [exists |-> FALSE, lines |-> <<>>])

PriorMetadata ==
    {NoMetadata, _save_metadata(PriorHash),
     [_save_metadata(PriorHash) EXCEPT !.stats_ok = FALSE]}
    \cup {[kind |-> k, stats_ok |-> TRUE, has_hash |-> FALSE, content_hash |-> <<>>] :
            k \in {"unreadable", "invalid_json", "falsy", "truthy_non_object", "object"}}

PriorIndexes ==
    {NoIndex, [state |-> "corrupt", built_from |-> <<>>],
     [state |-> "intact", built_from |-> PriorHash]}

InitCached ==
    /\ InitFs
    /\ InitDM
    /\ InitSavers
    /\ InitExtract
    /\ InitApp
    /\ InitConfig
    /\ chunk_size = MaxChunkSize
    /\ chunk_overlap = 1
    /\ documents = <<>>
    /\ chunked_docs = [called |-> FALSE, docs |-> <<>>]
    /\ metadata_file \in PriorMetadata
    /\ faiss_index \in PriorIndexes
    /\ lazy_vectorstore = NoVectorstore
    /\ cache_since = "other"
    /\ cret = NoCret
    /\ hashed = NoHashed

NextCache ==
    \/ IsCacheValid
    \/ LoadVectorstore
    \/ SaveVectorstore
    \/ ClearCache
    \/ GetCacheInfo
    \/ CreateOptimizedHrAssistant
    \/ LazyVectorStoreVectorstore
    \/ InvalidateCache
    \/ AddPdfAmong(CacheNames, CacheFiles)
    \/ RemovePdf
    \/ WritePdf(CacheFiles)
    \/ WriteUrls(CacheUrlLists)
    \/ RemoveUrls

SpecCache == InitCached /\ [][NextCache]_vars

(***************************************************************************)
(* SpecHash: _calculate_content_hash over directories of at most           *)
(* MaxHashFiles files that are added, removed, renamed and touched.  The   *)
(* names begin with digits and the modification times differ in their      *)
(* hundredths.                                                             *)
(***************************************************************************)
MaxHashFiles == 2

HashNames == {"1.pdf", "5.pdf", "55.pdf"}
HashFiles == {[size |-> 1, mtime |-> 200, kind |-> "text"],
              [size |-> 1, mtime |-> 205, kind |-> "text"]}

InitHash ==
    /\ pdf_dir = NoFiles
    /\ urls_file \in {[exists |-> FALSE, lines |-> <<>>],
                      [exists |-> TRUE, lines |-> <<"https://ok">>]}
    /\ InitDM
    /\ InitSavers
    /\ InitExtract
    /\ InitApp
    /\ InitConfig
    /\ InitCache
    /\ chunk_size = MaxChunkSize
    /\ chunk_overlap = 1
    /\ documents = <<>>
    /\ chunked_docs = [called |-> FALSE, docs |-> <<>>]

NextHash ==
    \/ CalculateContentHash
    \/ Cardinality(DOMAIN pdf_dir) < MaxHashFiles /\ AddPdfAmong(HashNames, HashFiles)
    \/ RemovePdf
    \/ WritePdf(HashFiles)
    \/ RenamePdf(HashNames)

SpecHash == InitHash /\ [][NextHash]_vars

(***************************************************************************)
(* SpecConfig: a configuration of any kind is validated and given to       *)
(* HRAssistantV2, over a directory of one file and a URL list.             *)
(***************************************************************************)
ConfigTemperatures == {-1, 3, 21}
Configs ==
    [chunk_size : -1..MaxChunkSize, chunk_overlap : -1..MaxChunkSize,
     memory_k : -1..MaxK, search_k : -1..MaxK, llm_temperature : ConfigTemperatures,
     openai_api_key : {for_testing.openai_api_key}]

ConfigFiles == [size : {2}, mtime : {1}, kind : {"text", "corrupt"}]

InitConfigured ==
    /\ InitFs
    /\ InitDM
    /\ InitSavers
    /\ InitExtract
    /\ InitApp
    /\ config \in Configs
    /\ vret = NoVret
    /\ chunk_size = MaxChunkSize
    /\ chunk_overlap = 1
    /\ documents = <<>>
    /\ chunked_docs = [called |-> FALSE, docs |-> <<>>]
    /\ InitCache

NextConfig ==
    \/ Validate
    \/ NewHRAssistantV2
    \/ AddPdfAmong(CacheNames, ConfigFiles)
    \/ RemovePdf
    \/ WriteUrls(CacheUrlLists)
    \/ RemoveUrls

SpecConfig == InitConfigured /\ [][NextConfig]_vars

(***************************************************************************)
(* SpecRepr: the API key of a configuration grows character by character   *)
(* and the configuration is printed.                                       *)
(***************************************************************************)
MaxKeyLen == 5
KeyChars == {"s", "k", "-", ".", "a"}

\* the caller gives the configuration a key one character longer
ExtendApiKey ==
    /\ Len(config.openai_api_key) < MaxKeyLen
    /\ \E ch \in KeyChars :
          config' = [config EXCEPT !.openai_api_key = Append(@, ch)]
    /\ vret' = NoVret
    /\ UNCHANGED <<savers, extractVars, appVars, fsVars, dmVars, chunkerVars, chunkVars, cacheVars>>

InitRepr ==
    /\ InitFs
    /\ InitDM
    /\ InitSavers
    /\ InitExtract
    /\ InitApp
    /\ \E ch \in KeyChars : config = [for_testing EXCEPT !.openai_api_key = <<ch>>]
    /\ vret = NoVret
    /\ chunk_size = MaxChunkSize
    /\ chunk_overlap = 1
    /\ documents = <<>>
    /\ chunked_docs = [called |-> FALSE, docs |-> <<>>]
    /\ InitCache

NextRepr == ExtendApiKey \/ Repr

SpecRepr == InitRepr /\ [][NextRepr]_vars

(***************************************************************************)
(* SpecSources: the assistant's response gets source after source and      *)
(* ask_hr_assistant formats it.                                            *)
(***************************************************************************)
MaxPage    == 2
MaxSources == 4

SectionTitle == <<"W", "s", "t", "e", "p">>
Bibliography == <<"a", ".", "p", "d", "f">>

PdfSources ==
    [type : {"pdf"}, page : 1..MaxPage,
     section : {<<>>, SectionTitle, Bibliography} \cup {PageLabel(n) : n \in 1..MaxPage},
     bibliography : {Bibliography}, title : {<<>>}, url : {<<>>}]

UrlSources ==
    [type : {"url"}, page : {0}, section : {<<>>, SectionTitle, <<"T">>},
     bibliography : {<<>>}, title : {<<"T">>}, url : {<<"u">>}]

\* hr_assistant.ask found one more source document
AppendSource ==
    /\ Len(sources) < MaxSources
    /\ \E source \in PdfSources \cup UrlSources : sources' = Append(sources, source)
    /\ answer' = NoAnswer
    /\ UNCHANGED <<savers, extractVars, configVars, fsVars, dmVars, chunkerVars, chunkVars, cacheVars>>

InitSources ==
    /\ InitFs
    /\ InitDM
    /\ InitSavers
    /\ InitExtract
    /\ InitConfig
    /\ sources = <<>>
    /\ answer = NoAnswer
    /\ chunk_size = MaxChunkSize
    /\ chunk_overlap = 1
    /\ documents = <<>>
    /\ chunked_docs = [called |-> FALSE, docs |-> <<>>]
    /\ InitCache

NextSources == AppendSource \/ AskHrAssistant

SpecSources == InitSources /\ [][NextSources]_vars

(***************************************************************************)
(* SpecExtract: a PDF grows line by line and page by page and is           *)
(* extracted.                                                              *)
(***************************************************************************)
MaxPdfItems == 5

\* a body line, two header lines and a line whose spans hold only blanks
PdfLines ==
    {[size |-> 12, text |-> <<"b">>], [size |-> 13, text |-> <<"H">>],
     [size |-> 14, text |-> <<"G">>], [size |-> 14, text |-> <<>>]}

\* the PDF has one more line, or one more page
AppendPdfItem ==
    /\ Len(pdf_items) < MaxPdfItems
    /\ \E item \in PdfLines \cup {PageBreak} : pdf_items' = Append(pdf_items, item)
    /\ extracted' = NoExtracted
    /\ UNCHANGED <<savers, appVars, configVars, fsVars, dmVars, chunkerVars, chunkVars,
                   cacheVars>>

InitExtracting ==
    /\ InitFs
    /\ InitDM
    /\ InitSavers
    /\ InitConfig
    /\ InitApp
    /\ InitExtract
    /\ chunk_size = MaxChunkSize
    /\ chunk_overlap = 1
    /\ documents = <<>>
    /\ chunked_docs = [called |-> FALSE, docs |-> <<>>]
    /\ InitCache

NextExtract == AppendPdfItem \/ ExtractPdfStructure

SpecExtract == InitExtracting /\ [][NextExtract]_vars

(***************************************************************************)
(* SpecRace: DocumentManager while another process writes the directory.   *)
(***************************************************************************)
RaceFiles == [size : {1}, mtime : Mtimes, kind : {"text"}]

NextRace ==
    \/ LoadAllDocumentsRacing(RaceFiles)
    \/ HasChanges
    \/ AddPdf(RaceFiles)
    \/ RemovePdf
    \/ WritePdf(RaceFiles)

SpecRace == InitTracked /\ [][NextRace]_vars

(***************************************************************************)
(* SpecSavers: two processes save to one cache directory while the         *)
(* sources change.                                                         *)
(***************************************************************************)
NextSavers ==
    \/ \E p \in Procs : SaveEnter(p)
    \/ \E p \in Procs : SaveLocal(p)
    \/ \E p \in Procs : SaveContentHash(p)
    \/ \E p \in Procs : SaveMetadataAndReturn(p)
    \/ AddPdfAmong(CacheNames, CacheFiles)
    \/ RemovePdf
    \/ WritePdf(CacheFiles)

SpecSavers == InitLoad /\ [][NextSavers]_vars

(***************************************************************************)
(* SpecReload: an HRAssistantV2 whose construction loaded the sources,     *)
(* reloaded again and again while the PDF files change.                    *)
(***************************************************************************)
InitReloadable ==
    /\ urls_file \in {[exists |-> FALSE, lines |-> <<>>],
                      [exists |-> TRUE, lines |-> <<"https://ok">>]}
    /\ pdf_dir \in {NoFiles} \cup {(n :> f) : n \in Names, f \in TrackedFiles}
    /\ \E listing \in Listings(pdf_dir) :
          load_all_documents(pdf_dir, listing, urls_file, {}, NoFiles,
                             MaxChunkSize, 1).raised = "none"
    /\ known_pdfs = DOMAIN pdf_dir
    /\ pdf_mtimes = [n \in DOMAIN pdf_dir |-> pdf_dir[n].mtime]
    /\ snapshot_sizes = [n \in DOMAIN pdf_dir |-> pdf_dir[n].size]
    /\ since = "loaded"
    /\ ret = NoRet
    /\ InitSavers
    /\ InitExtract
    /\ InitApp
    /\ InitConfig
    /\ chunk_size = MaxChunkSize
    /\ chunk_overlap = 1
    /\ documents = <<>>
    /\ chunked_docs = [called |-> FALSE, docs |-> <<>>]
    /\ InitCache

NextReload ==
    \/ ReloadKnowledgeBase
    \/ AddPdf(TrackedFiles)
    \/ RemovePdf
    \/ WritePdf(TrackedFiles)

SpecReload == InitReloadable /\ [][NextReload]_vars

(***************************************************************************)
(* Properties.                                                             *)
(***************************************************************************)
IsFirstPiece(c) == "chunk_id" \notin DOMAIN c.metadata \/ c.metadata["chunk_id"] = 0

\* the sources of the web documents among the chunks, one per document
UrlSourcesOf(chunks) ==
    LET firsts == SelectSeq(chunks, LAMBDA c : c.metadata["type"] = "website" /\ IsFirstPiece(c))
    IN  [i \in 1..Len(firsts) |-> firsts[i].metadata["source"]]

\* the files whose chunks are among the chunks
FilenamesOf(chunks) ==
    {chunks[i].metadata["filename"] :
        i \in {j \in 1..Len(chunks) : chunks[j].metadata["type"] = "section"}}

\* the URLs of the list whose fetch succeeds with usable content, in order
UsableUrls ==
    SelectSeq(urls_file.lines,
              LAMBDA l : l # "#comment" /\ ~fetch(l).raised /\ fetch(l).usable)

\* the PDF files that hold text
TextFiles == {n \in DOMAIN pdf_dir : pdf_dir[n].kind = "text"}

\* PDF extraction and URL loading together yield no document
NoDocuments == TextFiles = {} /\ UsableUrls = <<>>

Loaded == ret.op = "load_all_documents"

\* C1: load_all_documents either raises ValueError or returns a non-empty
\* chunk list; it raises exactly when the sources yield zero documents, and
\* then the chunker is not invoked.
C1_ValueErrorOrChunks ==
    Loaded =>
        /\ ret.raised \in {"none", "ValueError"}
        /\ ret.raised = "ValueError" <=> NoDocuments
        /\ ret.raised = "ValueError" => ~ret.chunker_called
        /\ ret.raised = "none" => ret.chunks # <<>>

\* C2: when one PDF cannot be opened, load_all_documents skips only that
\* file: no exception of the file reaches the caller, and the chunks of
\* every other PDF and of every URL source are returned.
C2_CorruptPdfSkipped ==
    (Loaded /\ \E n \in DOMAIN pdf_dir : pdf_dir[n].kind = "corrupt") =>
        /\ ret.raised # "FileDataError"
        /\ ret.raised = "none" =>
              /\ FilenamesOf(ret.chunks) = TextFiles
              /\ UrlSourcesOf(ret.chunks) = UsableUrls

\* C3: a URL whose fetch raises contributes no document, every other URL
\* with usable content contributes its document, and the exception of the
\* fetch never reaches the caller of load_all_documents.
C3_UrlFailureIsolated ==
    /\ load_url_documents(urls_file).docs =
          [i \in 1..Len(UsableUrls) |->
              [page_content |-> WebText,
               metadata |-> ("source" :> UsableUrls[i]) @@ ("type" :> "website")]]
    /\ Loaded =>
          /\ ret.raised # "RequestException"
          /\ ret.raised = "none" => UrlSourcesOf(ret.chunks) = UsableUrls

C3_Witness ==
    /\ Loaded
    /\ ret.raised = "none"
    /\ \E i, j \in 1..Len(urls_file.lines) :
          urls_file.lines[i] = "https://down" /\ urls_file.lines[j] = "https://ok"
    /\ UrlSourcesOf(ret.chunks) # <<>>

\* C7: a has_changes call that follows another has_changes call, with no
\* change of the set of PDF files and of no file's mtime between the two,
\* returns False.
C7_SecondCheckFalse ==
    (ret.op = "has_changes" /\ ret.after = "checked") => ~ret.changed

C7_Witness ==
    /\ ret.op = "has_changes"
    /\ ret.after = "checked"
    /\ known_pdfs # {}
    /\ \E n \in known_pdfs : snapshot_sizes[n] # pdf_dir[n].size

\* the snapshot the tracker stores differs from the directory in the set of
\* names or in the size or mtime of a file of both
SignatureChanged ==
    \/ DOMAIN pdf_dir # known_pdfs
    \/ \E n \in DOMAIN pdf_dir \cap known_pdfs :
          \/ pdf_dir[n].mtime # pdf_mtimes[n]
          \/ pdf_dir[n].size # snapshot_sizes[n]

\* C8: has_changes returns True exactly when the set of names differs from
\* the stored snapshot's or a file of both has another size or mtime.
C8_SizeAndMtimeSignature ==
    [][HasChanges => (ret'.changed <=> SignatureChanged)]_vars

\* C9: after load_all_documents returns, the tracker holds the snapshot of
\* the directory; the has_changes call made next returns False with no
\* change in between, and True after a file was added, removed or touched.
C9_TrackerAfterLoad ==
    /\ (Loaded /\ ret.raised = "none") =>
          /\ known_pdfs = DOMAIN pdf_dir
          /\ pdf_mtimes = [n \in DOMAIN pdf_dir |-> pdf_dir[n].mtime]
    /\ (ret.op = "has_changes" /\ ret.after = "loaded") => ~ret.changed
    /\ (ret.op = "has_changes" /\ ret.after = "loaded_changed") => ret.changed

C9_Witness ==
    /\ ret.op = "has_changes"
    /\ ret.after = "loaded_changed"
    /\ ret.changed
    /\ pdf_dir # NoFiles

\* number of occurrences of character ch in text
RECURSIVE Count(_, _)
Count(text, ch) ==
    IF text = <<>> THEN 0
    ELSE (IF Head(text) = ch THEN 1 ELSE 0) + Count(Tail(text), ch)

\* a run that no configured separator splits
Unsplittable(text) ==
    \A k \in 1..Len(separators) :
        separators[k] # <<>> /\ ~Contains(text, separators[k])

\* the text of the chunks made of the i-th document
ChunkTextOf(i) ==
    join([k \in 1..Len(chunked_docs.docs) |->
             IF chunked_docs.docs[k].metadata["page"] = i
             THEN chunked_docs.docs[k].page_content
             ELSE <<>>])

\* C10: every chunk of chunk_documents is at most chunk_size long, but for
\* a run that no separator splits; and nothing but whitespace is dropped:
\* each character of a document occurs in its chunks at least as often.
C10_ChunkWithinBudget ==
    chunked_docs.called =>
        /\ \A k \in 1..Len(chunked_docs.docs) :
              \/ Len(chunked_docs.docs[k].page_content) <= chunk_size
              \/ Unsplittable(chunked_docs.docs[k].page_content)
        /\ \A i \in 1..Len(documents) : \A ch \in Chars \ Whitespace :
              Count(documents[i].page_content, ch) <= Count(ChunkTextOf(i), ch)

C10_Witness ==
    /\ chunked_docs.called
    /\ \E i \in 1..Len(documents) : Len(documents[i].page_content) > chunk_size
    /\ \E k \in 1..Len(chunked_docs.docs) :
          /\ "chunk_id" \in DOMAIN chunked_docs.docs[k].metadata
          /\ chunked_docs.docs[k].metadata["chunk_id"] > 0
          /\ Len(chunked_docs.docs[k].page_content) = chunk_size

\* C4: is_cache_valid never raises because of the persisted metadata:
\* whatever metadata.json holds, it returns a boolean, and it returns True
\* only when metadata.json is a JSON object whose "content_hash" equals the
\* fingerprint of the sources
C4_ValidityNeverRaises ==
    cret.op = "is_cache_valid" =>
        /\ cret.raised = "none"
        /\ cret.value => /\ metadata_file.kind = "object"
                         /\ metadata_file.has_hash
                         /\ metadata_file.content_hash
                                = _calculate_content_hash(pdf_dir, urls_file)

C6_NoExtractionOnCacheHit ==
    (cret.op \in {"create_optimized_hr_assistant", "LazyVectorStore.vectorstore"}
     /\ cret.hit) => cret.extractions = 0

\* the chunks made of the i-th document, in the order of the output
ChunksOfDoc(i) == SelectSeq(chunked_docs.docs, LAMBDA c : c.metadata["page"] = i)

\* C11: the output keeps the order of the input documents, and the pieces of
\* a document longer than chunk_size are the texts the splitter emitted, in
\* that order, numbered chunk_id 0, 1, ..., n-1, each with total_chunks = n
C11_PiecesNumberedInOrder ==
    chunked_docs.called =>
        /\ \A j, k \in 1..Len(chunked_docs.docs) :
              j < k => chunked_docs.docs[j].metadata["page"]
                          <= chunked_docs.docs[k].metadata["page"]
        /\ \A i \in 1..Len(documents) :
              Len(documents[i].page_content) > chunk_size =>
                  LET pieces == ChunksOfDoc(i)
                  IN  /\ [m \in 1..Len(pieces) |-> pieces[m].page_content]
                            = split_text(documents[i].page_content, chunk_size,
                                         chunk_overlap)
                      /\ \A m \in 1..Len(pieces) :
                            /\ {"chunk_id", "total_chunks"} \subseteq DOMAIN pieces[m].metadata
                            /\ pieces[m].metadata["chunk_id"] = m - 1
                            /\ pieces[m].metadata["total_chunks"] = Len(pieces)

\* two documents, the first split into several pieces, the second chunked
\* after it
C11_Witness ==
    /\ chunked_docs.called
    /\ Len(documents) = 2
    /\ Len(documents[1].page_content) > chunk_size
    /\ Len(ChunksOfDoc(1)) >= 2
    /\ Len(ChunksOfDoc(2)) >= 1

\* C12: every chunk of chunk_documents, a document passed through whole
\* included, carries the attributes of its parent, a chunk index and the
\* count of chunks of its parent
C12_EveryChunkIndexed ==
    chunked_docs.called =>
        \A k \in 1..Len(chunked_docs.docs) :
            LET c == chunked_docs.docs[k]
                parent == documents[c.metadata["page"]]
            IN  /\ \A key \in DOMAIN parent.metadata :
                      key \in DOMAIN c.metadata /\ c.metadata[key] = parent.metadata[key]
                /\ {"chunk_id", "total_chunks"} \subseteq DOMAIN c.metadata

\* C13: the fingerprint does not depend on the order in which glob()
\* enumerates the directory: every listing of the same files gives the
\* bytes the call computed
C13_ListingOrderIrrelevant ==
    hashed.called =>
        \A l \in Listings(hashed.dir) :
            content_hash_bytes(hashed.dir, l, hashed.file) = hashed.value

\* the fingerprint of two files that glob() enumerated in descending order
C13_Witness ==
    /\ hashed.called
    /\ Cardinality(DOMAIN hashed.dir) = 2
    /\ hashed.listing # sorted(hashed.listing)

\* the two directory states differ in the name or the modification time of
\* a file
NameOrMtimeDiffers(dir, dir2) ==
    \/ DOMAIN dir # DOMAIN dir2
    \/ \E n \in DOMAIN dir : dir[n].mtime # dir2[n].mtime

\* C14: two directory states that differ in the name or the modification
\* time of a file give different bytes to the hash, so is_cache_valid says
\* False to metadata saved for the other state
C14_RenameOrTouchChangesFingerprint ==
    (/\ hashed.called
     /\ hashed.prev_called
     /\ hashed.file = hashed.prev_file
     /\ NameOrMtimeDiffers(hashed.prev_dir, hashed.dir)) =>
        /\ hashed.value # hashed.prev_value
        /\ ~is_cache_valid(_save_metadata(hashed.prev_value), hashed.dir,
                           hashed.file).value

\* C15: save_vectorstore never raises; a failure at any point makes it
\* return False, and it returns True only when the index and the metadata
\* record with the fingerprint of the sources are both written
C15_SaveNeverRaises ==
    cret.op = "save_vectorstore" =>
        /\ cret.raised = "none"
        /\ cret.fault # "none" => ~cret.value
        /\ cret.value =>
              /\ faiss_index = [state |-> "intact", built_from |-> cret.built_from]
              /\ metadata_file
                    = [kind |-> "object", stats_ok |-> TRUE, has_hash |-> TRUE,
                       content_hash |-> _calculate_content_hash(pdf_dir, urls_file)]

\* a save that failed while metadata.json was being written
C15_Witness ==
    /\ cret.op = "save_vectorstore"
    /\ cret.fault = "in_metadata"
    /\ ~cret.value
    /\ faiss_index.state = "intact"

\* C16 as stated: load_vectorstore never raises, returns None when the
\* index is missing, when FAISS.load_local fails or when metadata.json is
\* unreadable, and returns the deserialized index otherwise
C16_NoneOnUnreadableMetadata ==
    cret.op = "load_vectorstore" =>
        /\ cret.raised = "none"
        /\ cret.loaded <=> (faiss_index.state = "intact"
                            /\ metadata_file.kind # "unreadable")
        /\ cret.loaded => cret.built_from = faiss_index.built_from

\* C16 amended: load_vectorstore never raises; it returns the deserialized
\* index exactly when the index is intact and the log line about the
\* metadata does not fail, that is unless metadata.json parses to a truthy
\* value that is not an object or to an object with unusable "stats"; a
\* missing, unreadable or unparsable metadata.json does not stand in the way
C16_LoadNeverRaises ==
    cret.op = "load_vectorstore" =>
        /\ cret.raised = "none"
        /\ cret.loaded <=>
              /\ faiss_index.state = "intact"
              /\ metadata_file.kind # "truthy_non_object"
              /\ metadata_file.kind = "object" => metadata_file.stats_ok
        /\ cret.loaded => cret.built_from = faiss_index.built_from

\* an intact index loaded beside an unreadable metadata.json
C16_Witness ==
    /\ cret.op = "load_vectorstore"
    /\ cret.loaded
    /\ metadata_file.kind = "unreadable"

\* the call went through the cache: create_optimized_hr_assistant with
\* use_cache, or LazyVectorStore.vectorstore on its first access
ThroughCache ==
    /\ cret.op \in {"create_optimized_hr_assistant", "LazyVectorStore.vectorstore"}
    /\ cret.value

\* C17: a caller that goes through the cache never fails because of the
\* cache: it raises only what building from the sources raises, and unless
\* it got the index from the cache it returns an index built from the
\* sources and has attempted to save it
C17_DefeatedCacheNeverBlocks ==
    ThroughCache =>
        /\ cret.raised \in {"none", _load_and_process_documents(pdf_dir, urls_file).raised}
        /\ (cret.raised = "none" /\ ~cret.hit) =>
              /\ cret.loaded
              /\ cret.built_from = _calculate_content_hash(pdf_dir, urls_file)
              /\ cret.saved # "no"

\* the files of the cache are as the call found them
CacheFilesUnchanged == metadata_file' = metadata_file /\ faiss_index' = faiss_index

\* a file of the cache that was there before the step is gone after it
CacheFileRemoved ==
    \/ metadata_file.kind # "missing" /\ metadata_file'.kind = "missing"
    \/ faiss_index.state # "missing" /\ faiss_index'.state = "missing"

\* after the step the cache directory exists and is empty, is_cache_valid
\* returns False and load_vectorstore returns None
CacheEmptied ==
    /\ metadata_file' = NoMetadata
    /\ faiss_index' = NoIndex
    /\ cret'.dir_exists
    /\ is_cache_valid(metadata_file', pdf_dir', urls_file')
          = [raised |-> "none", value |-> FALSE]
    /\ ~load_vectorstore(metadata_file', faiss_index').loaded

\* C18 as stated: is_cache_valid, load_vectorstore and get_cache_info leave
\* metadata.json and the index as they are; a file of the cache disappears
\* only in clear_cache (invalidate_cache calls it); and after clear_cache
\* the cache directory exists and is empty, is_cache_valid returns False
\* and load_vectorstore returns None
C18_ClearAlwaysEmpties ==
    [][/\ cret'.op \in {"is_cache_valid", "load_vectorstore", "get_cache_info"} =>
            CacheFilesUnchanged
       /\ CacheFileRemoved => cret'.op \in {"clear_cache", "invalidate_cache"}
       /\ cret'.op = "clear_cache" => CacheEmptied]_vars

\* C18, amended: the same, the state after clear_cache being promised only
\* when clear_cache returned True; a clear_cache that returned False may
\* have removed nothing or a part of the cache
C18_OnlyClearRemoves ==
    [][/\ cret'.op \in {"is_cache_valid", "load_vectorstore", "get_cache_info"} =>
            CacheFilesUnchanged
       /\ CacheFileRemoved => cret'.op \in {"clear_cache", "invalidate_cache"}
       /\ (cret'.op = "clear_cache" /\ cret'.value) => CacheEmptied]_vars

\* clear_cache returned True on a cache that held a saved entry
C18_Witness ==
    /\ cret.op = "clear_cache"
    /\ cret.value
    /\ cret.after = "saved"
    /\ metadata_file = NoMetadata
    /\ faiss_index = NoIndex

\* one of the five conditions on chunk_size, chunk_overlap, memory_k and
\* search_k holds of the configuration
InvalidSizes(cfg) ==
    \/ cfg.chunk_size <= 0
    \/ cfg.chunk_overlap < 0
    \/ cfg.chunk_overlap >= cfg.chunk_size
    \/ cfg.memory_k <= 0
    \/ cfg.search_k <= 0

\* C19: validate() raises ValueError whenever chunk_size <= 0,
\* chunk_overlap < 0, chunk_overlap >= chunk_size, memory_k <= 0 or
\* search_k <= 0, and returns True only for a configuration in which none
\* of these holds
C19_ValidateRejectsInvalid ==
    vret.op = "validate" =>
        /\ InvalidSizes(config) => (vret.raised = "ValueError" /\ ~vret.value)
        /\ vret.value => (vret.raised = "none" /\ ~InvalidSizes(config))

\* validate() has raised on a configuration whose only fault is an overlap
\* as large as the chunk
C19_Witness ==
    /\ vret.op = "validate"
    /\ vret.raised = "ValueError"
    /\ config.chunk_size > 0
    /\ config.chunk_overlap = config.chunk_size
    /\ config.memory_k > 0
    /\ config.search_k > 0
    /\ config.llm_temperature = 3

\* C20: HRAssistantV2 constructed with a configuration whose chunk_size is
\* not positive or whose chunk_overlap >= chunk_size raises ValueError
\* before any I/O: no bibliography read, no directory listing, no PDF
\* parsed, no URL fetched
C20_InvalidConfigNoIO ==
    (/\ vret.op = "HRAssistantV2"
     /\ (config.chunk_size <= 0 \/ config.chunk_overlap >= config.chunk_size)) =>
        (vret.raised = "ValueError" /\ vret.io = <<>>)

\* the constructor has raised on an overlap larger than the chunk, in a
\* directory with a PDF and with a URL list to load
C20_Witness ==
    /\ vret.op = "HRAssistantV2"
    /\ vret.raised = "ValueError"
    /\ config.chunk_size > 0
    /\ config.chunk_overlap > config.chunk_size
    /\ pdf_dir # NoFiles
    /\ urls_file.exists

\* C21: for every non-empty openai_api_key the string __repr__ returns
\* does not contain the full key, only the mask "sk-..." followed by the
\* key's last four characters
C21_ReprHidesApiKey ==
    (vret.op = "__repr__" /\ config.openai_api_key # <<>>) =>
        /\ ~Contains(vret.text, config.openai_api_key)
        /\ Contains(vret.text, <<"s", "k", "-", ".", ".", ".">>
                                 \o last_four(config.openai_api_key))

\* C22: the line of a PDF source on page N whose section is "Strona N"
\* contains "str. N" and not "str. N - _Strona N_"; a PDF source with a
\* real section title keeps " - _<section>_"; at most the first three
\* sources are listed, numbered 1..3 in order
C22_PageShownOnce ==
    answer.called =>
        /\ Len(answer.lines) = Min({3, Len(sources)})
        /\ \A i \in 1..Len(answer.lines) :
              /\ MatchesAt(answer.lines[i], str(i) \o <<".", " ">>, 1)
              /\ (sources[i].type = "pdf" /\ sources[i].section = SectionTitle) =>
                    Contains(answer.lines[i],
                             <<" ", "-", " ", "_">> \o SectionTitle \o <<"_">>)
              /\ (/\ sources[i].type = "pdf"
                  /\ sources[i].section = PageLabel(sources[i].page)) =>
                    /\ Contains(answer.lines[i],
                                <<"s", "t", "r", ".", " ">> \o str(sources[i].page))
                    /\ ~Contains(answer.lines[i],
                                 <<"s", "t", "r", ".", " ">> \o str(sources[i].page)
                                 \o <<" ", "-", " ", "_">>
                                 \o PageLabel(sources[i].page) \o <<"_">>)

\* the lines of a page that have text, and those of them that are headers
TextLinesOf(page) == SelectSeq(page, LAMBDA l : l.text # <<>>)
HeadersOf(page) == SelectSeq(page, LAMBDA l : l.text # <<>> /\ l.size > 12)

\* the documents extracted from page n, in the order of the result
DocsOfPage(n) == SelectSeq(extracted.docs, LAMBDA d : d.metadata.page = n)

\* C23: pages are processed in order; a page with no text gives no
\* document; a page with text and no header line gives one document
\* tagged "Strona N"; a page with k >= 1 header lines gives exactly k
\* documents, tagged with the header titles in order, the last of them
\* being the text pending at the end of the page; the section of one page
\* is never carried to the next
C23_OneDocumentPerSection ==
    extracted.called =>
        LET pages == PagesOf(pdf_items, <<>>)
        IN  /\ \A i, j \in 1..Len(extracted.docs) :
                  i < j => extracted.docs[i].metadata.page <= extracted.docs[j].metadata.page
            /\ \A d \in 1..Len(extracted.docs) :
                  extracted.docs[d].metadata.page \in 1..Len(pages)
            /\ \A n \in 1..Len(pages) :
                  LET headers == HeadersOf(pages[n])
                      docs == DocsOfPage(n)
                  IN  /\ TextLinesOf(pages[n]) = <<>> => docs = <<>>
                      /\ (TextLinesOf(pages[n]) # <<>> /\ headers = <<>>) =>
                            /\ Len(docs) = 1
                            /\ docs[1].metadata.section = PageLabel(n)
                      /\ headers # <<>> =>
                            /\ Len(docs) = Len(headers)
                            /\ \A k \in 1..Len(docs) :
                                  docs[k].metadata.section = headers[k].text

\* a PDF of two pages has been extracted: two headers and text on the
\* first page, text without a header on the second
C23_Witness ==
    /\ extracted.called
    /\ Len(PagesOf(pdf_items, <<>>)) = 2
    /\ Len(HeadersOf(PagesOf(pdf_items, <<>>)[1])) = 2
    /\ Len(DocsOfPage(1)) = 2
    /\ HeadersOf(PagesOf(pdf_items, <<>>)[2]) = <<>>
    /\ Len(DocsOfPage(2)) = 1

\* the texts of the body lines of a page that come before its first header
RECURSIVE BodyBeforeFirstHeader(_)
BodyBeforeFirstHeader(page) ==
    IF page = <<>> THEN <<>>
    ELSE IF Head(page).text = <<>> THEN BodyBeforeFirstHeader(Tail(page))
    ELSE IF Head(page).size > 12 THEN <<>>
    ELSE <<Head(page).text>> \o BodyBeforeFirstHeader(Tail(page))

\* C25: every document tagged with a detected header title has content
\* that begins with "## " and that title, and holds no body text that came
\* before that header on the page
C25_ContentStartsAtHeader ==
    extracted.called =>
        LET pages == PagesOf(pdf_items, <<>>)
        IN  \A n \in 1..Len(pages) :
                HeadersOf(pages[n]) # <<>> =>
                    \A k \in 1..Len(DocsOfPage(n)) :
                        LET doc == DocsOfPage(n)[k]
                        IN  /\ MatchesAt(doc.page_content,
                                         <<"#", "#", " ">> \o doc.metadata.section, 1)
                            /\ k = 1 =>
                                  \A b \in 1..Len(BodyBeforeFirstHeader(pages[n])) :
                                      ~Contains(doc.page_content,
                                                BodyBeforeFirstHeader(pages[n])[b])

\* C24: after a has_changes call, whatever it returned, the stored
\* snapshot is the snapshot of the directory the call listed; and in every
\* state the keys of _pdf_mtimes are the names of _known_pdfs
C24_SnapshotAlwaysFresh ==
    /\ ret.op = "has_changes" =>
          /\ known_pdfs = DOMAIN pdf_dir
          /\ pdf_mtimes = [n \in DOMAIN pdf_dir |-> pdf_dir[n].mtime]
    /\ DOMAIN pdf_mtimes = known_pdfs

\* C29: after load_all_documents returns, every PDF the tracker records
\* with modification time m was extracted in that run with modification
\* time m
C29_TrackedAsExtracted ==
    (ret.op = "load_all_documents" /\ ret.raised = "none") =>
        \A n \in known_pdfs :
            /\ n \in DOMAIN ret.extracted
            /\ ret.extracted[n] = pdf_mtimes[n]

\* C26: whenever is_cache_valid returns True, the index in the cache
\* directory was built from sources whose fingerprint is the current one,
\* whatever was built, saved, modified and checked before
C26_ValidIndexIsCurrent ==
    (cret.op = "is_cache_valid" /\ cret.value) =>
        /\ faiss_index.state = "intact"
        /\ faiss_index.built_from = _calculate_content_hash(pdf_dir, urls_file)

\* C30: a save_vectorstore that returns False leaves the persisted index
\* and the persisted metadata as they were before the call
C30_FailedSaveChangesNothing ==
    [][(cret'.op = "save_vectorstore" /\ ~cret'.value) =>
            (metadata_file' = metadata_file /\ faiss_index' = faiss_index)]_vars

\* C27: once two concurrent save_vectorstore calls on one cache directory
\* have both returned, the persisted index and the persisted metadata
\* were written by the same call
C27_IndexAndMetadataOfOneCall ==
    (\A p \in Procs : savers.calls[p].pc = "returned") =>
        savers.index_by = savers.metadata_by

\* C28: a reload_knowledge_base call that follows, with no change of the
\* files in between, a call that detected a change and raised while
\* re-initialising, detects the change again
C28_DetectedChangeNotLost ==
    (ret.op = "reload_knowledge_base" /\ ret.after = "reload_raised") => ret.changed

====
